---- MODULE Spec2Model ----
(***************************************************************************)
(* A model of the voice-changer audio engine: the Web Audio node graph     *)
(* built by setupAudioGraph / setupAdvancedAudioGraph, the AudioPlayer     *)
(* component that rebuilds it, and the worklet processors.                 *)
(*                                                                         *)
(* Gains, mixes and feedbacks are fixed-point numbers in tenths            *)
(* (0.3 is 3, 1 - mix is 10 - mix).                                        *)
(***************************************************************************)
EXTENDS Integers, Sequences, FiniteSets, TLC

VARIABLES
    \* ---- graph construction (setupAudioGraph, setupAdvancedAudioGraph)
    gPhase,      \* "init" | "built" | "updated"
    gEffects,    \* the AdvancedAudioEffects snapshot handed to setup / update
    gAvail,      \* processors for which new AudioWorkletNode succeeds
    gBasic,      \* what setupAudioGraph returned
    gAdv,        \* what setupAdvancedAudioGraph returned (nodes updated in place)
    \* ---- the AudioPlayer component: React state
    isPlaying,
    basicEffects,
    advancedEffects,
    audioContextInitialized,
    \* ---- the AudioPlayer component: refs (0 is null, else a context id)
    audioContextRef,
    basicNodesRef,         \* the context whose basic nodes the ref holds
    advancedNodesRef,      \* the context whose advanced nodes the ref holds
    effectsAppliedRef,
    sourceNodeCreatedRef,
    \* ---- the browser
    paused,                \* audioRef.current.paused
    ctx,                   \* every AudioContext the player created
    elementSources,        \* contexts holding a MediaElementSource of the element
    \* ---- handler invocations in flight, each with the closure of its render
    tasks,
    calls,                 \* handler invocations so far
    caught,                \* history: the contexts that were active when a
                           \* rebuild that ended in the catch block began
    \* ---- the worklet processors (audio rendering thread)
    timeStretchProcessor,  \* the fields of a TimeStretchProcessor
    pitchShifterProcessor, \* the fields of a PitchShifterProcessor
    block,                 \* the last process call: processor, input, output,
                           \* and the rate or ratio and read cursor it began with
    autoTuneProcessor,     \* the fields of an AutoTuneProcessor
    autoTuneBlock,         \* its last process call, and its fields before it
    formantShiftProcessor, \* the fields of a FormantShiftProcessor
    lastMessage,           \* history: the last value sent for each parameter
    \* ---- pure functions: the arguments of a call and what it returned
    noteCall,              \* a call of AutoTuneProcessor.findClosestNote
    \* ---- the granular processor
    granularProcessor,     \* the fields of a GranularProcessor
    granularBlock,         \* its last process call
    \* ---- the download
    gBasicEffects,         \* the AudioEffects snapshot handed to setup / update
    offline,               \* what processAudioWithEffects built
    wav,                   \* a call of encodeWAV
    \* ---- the formant shift processor's filters
    formantHistory,        \* this.x1, this.x2, this.y1, this.y2
    formantBlock,          \* its last process call, and the history before it
    \* ---- the AudioPlayer component: its life
    unmounted,             \* the cleanup of the [audio] effect has run
    \* ---- the download as MP3
    mp3                    \* a call of encodeMP3: its recorder, source, timer and promise

gvars == <<gPhase, gEffects, gAvail, gBasic, gAdv>>

pvars == <<isPlaying, basicEffects, advancedEffects, audioContextInitialized,
           audioContextRef, basicNodesRef, advancedNodesRef, effectsAppliedRef,
           sourceNodeCreatedRef, paused, ctx, elementSources, tasks, calls,
           caught>>

wvars == <<timeStretchProcessor, pitchShifterProcessor, block>>

xvars == <<autoTuneProcessor, autoTuneBlock, formantShiftProcessor>>

nvars == <<noteCall>>

grvars == <<granularProcessor, granularBlock>>

evars == <<gBasicEffects, offline>>

wavvars == <<wav>>

fvars == <<formantHistory, formantBlock>>

uvars == <<unmounted>>

mvars == <<mp3>>

zvars == <<fvars, uvars, mvars>>

yvars == <<nvars, grvars, evars, wavvars, zvars>>

vars == <<gvars, pvars, wvars, xvars, lastMessage, yvars>>

---------------------------------------------------------------------------
(* Parameter snapshots *)

\* The composition order of setupAdvancedAudioGraph's ten blocks.
StageOrder ==
    << "echo", "distortion", "chorus", "flanger", "phaser", "compression",
       "autoTune", "formantShift", "timeStretch", "granular" >>

Stages == { StageOrder[i] : i \in 1..Len(StageOrder) }

\* The stages that are AudioWorklet nodes, and the processor each one names.
WorkletStages == { "autoTune", "formantShift", "timeStretch", "granular" }

ProcessorOf(stage) ==
    CASE stage = "autoTune"     -> "auto-tune-processor"
      [] stage = "formantShift" -> "formant-shift-processor"
      [] stage = "timeStretch"  -> "time-stretch-processor"
      [] stage = "granular"     -> "granular-processor"
      [] stage = "pitch"        -> "pitch-shifter-processor"

Processors == { ProcessorOf(s) : s \in WorkletStages \cup {"pitch"} }

\* defaultAdvancedEffects: every effect disabled (values in tenths).
defaultAdvancedEffects ==
    [ echo         |-> [enabled |-> FALSE, feedback |-> 4, mix |-> 3],
      distortion   |-> [enabled |-> FALSE],
      chorus       |-> [enabled |-> FALSE, mix |-> 5],
      flanger      |-> [enabled |-> FALSE, feedback |-> 5],
      phaser       |-> [enabled |-> FALSE, feedback |-> 5, stages |-> 6],
      autoTune     |-> [enabled |-> FALSE],
      formantShift |-> [enabled |-> FALSE],
      timeStretch  |-> [enabled |-> FALSE],
      compression  |-> [enabled |-> FALSE],
      granular     |-> [enabled |-> FALSE] ]

\* defaultEffects of the basic panel (reverb in tenths).
defaultEffects ==
    [character |-> "normal", pitch |-> 0, treble |-> 0, bass |-> 0, reverb |-> 0,
     speed |-> 10]

\* applyCharacterPreset (speed and reverb in tenths)
applyCharacterPreset(effects, character) ==
    CASE character = "chipmunk" ->
           [effects EXCEPT !.character = character, !.pitch = 7, !.speed = 13,
                           !.treble = 5, !.bass = -2, !.reverb = 1]
      [] character = "robot" ->
           [effects EXCEPT !.character = character, !.pitch = 0, !.speed = 10,
                           !.treble = 8, !.bass = 3, !.reverb = 4]
      [] character = "deep" ->
           [effects EXCEPT !.character = character, !.pitch = -5, !.speed = 8,
                           !.treble = -2, !.bass = 8, !.reverb = 3]
      [] OTHER ->
           [effects EXCEPT !.character = character, !.pitch = 0, !.speed = 10,
                           !.treble = 0, !.bass = 0, !.reverb = 0]

\* A snapshot with exactly the effects of en enabled, the delay-family
\* feedbacks set to fb and the echo / chorus mixes set to mix.
Snapshot(en, fb, mix) ==
    [ echo         |-> [enabled |-> "echo" \in en, feedback |-> fb, mix |-> mix],
      distortion   |-> [enabled |-> "distortion" \in en],
      chorus       |-> [enabled |-> "chorus" \in en, mix |-> mix],
      flanger      |-> [enabled |-> "flanger" \in en, feedback |-> fb],
      phaser       |-> [enabled |-> "phaser" \in en, feedback |-> fb,
                        stages |-> defaultAdvancedEffects.phaser.stages],
      autoTune     |-> [enabled |-> "autoTune" \in en],
      formantShift |-> [enabled |-> "formantShift" \in en],
      timeStretch  |-> [enabled |-> "timeStretch" \in en],
      compression  |-> [enabled |-> "compression" \in en],
      granular     |-> [enabled |-> "granular" \in en] ]

\* Object.entries(effects) filtered on .enabled
EnabledOf(effects) == { s \in Stages : effects[s].enabled }

---------------------------------------------------------------------------
(* Audio nodes.  A node is <<owner, role, index>>. *)

N(owner, role) == <<owner, role, 0>>

Source      == N("source", "out")
Destination == N("destination", "in")

NoNodes == [cur |-> Source, edges |-> {}, nodes |-> {}, gain |-> <<>>]

\* createDelayNode: the delay with its feedback loop, gain = feedback as given.
createDelayNode(g, stage, feedback) ==
    [g EXCEPT !.edges = @ \cup { <<N(stage, "delay"), N(stage, "feedback")>>,
                                 <<N(stage, "feedback"), N(stage, "delay")>> },
              !.gain  = @ @@ (N(stage, "feedback") :> feedback)]

\* A split and merge that leaves the dry path at unity gain.
MixIntoFullDry(g, stage, input, wetFrom, dry, wet) ==
    [g EXCEPT !.edges = @ \cup { <<g.cur, N(stage, "dry")>>,
                                 <<g.cur, input>>,
                                 <<wetFrom, N(stage, "wet")>>,
                                 <<N(stage, "dry"), N(stage, "merger")>>,
                                 <<N(stage, "wet"), N(stage, "merger")>> },
              !.gain  = @ @@ (N(stage, "dry") :> 10) @@ (N(stage, "wet") :> wet),
              !.cur   = N(stage, "merger")]

\* The dry / wet split and merge every mixing stage ends with: currentNode feeds
\* the dry gain and the processing input, both gains feed the merger, and the
\* merger becomes currentNode.
MixInto(g, stage, input, wetFrom, dry, wet) ==
    [g EXCEPT !.edges = @ \cup { <<g.cur, N(stage, "dry")>>,
                                 <<g.cur, input>>,
                                 <<wetFrom, N(stage, "wet")>>,
                                 <<N(stage, "dry"), N(stage, "merger")>>,
                                 <<N(stage, "wet"), N(stage, "merger")>> },
              !.gain  = @ @@ (N(stage, "dry") :> dry) @@ (N(stage, "wet") :> wet),
              !.cur   = N(stage, "merger")]

\* 1. Echo effect
SetupEcho(g, effects) ==
    IF effects.echo.enabled
    THEN LET d == createDelayNode(g, "echo", effects.echo.feedback)
             m == MixInto(d, "echo", N("echo", "delay"), N("echo", "delay"),
                          10 - effects.echo.mix, effects.echo.mix)
         IN  [m EXCEPT !.nodes = @ \cup { "echoDelayNode", "echoFeedbackGain",
                                          "echoMixGain", "echoDryGain" }]
    ELSE g

\* 2. Distortion effect (fixed 0.5 / 0.5 mix)
SetupDistortion(g, effects) ==
    IF effects.distortion.enabled
    THEN LET m == MixInto(g, "distortion", N("distortion", "shaper"),
                          N("distortion", "shaper"), 5, 5)
         IN  [m EXCEPT !.nodes = @ \cup { "distortionNode", "distortionMixGain",
                                          "distortionDryGain" }]
    ELSE g

\* 3. Chorus effect
SetupChorus(g, effects) ==
    IF effects.chorus.enabled
    THEN LET o == [g EXCEPT !.edges = @ \cup
                      { <<N("chorus", "oscillator"), N("chorus", "modulation")>>,
                        <<N("chorus", "modulation"), N("chorus", "delayTime")>> }]
             m == MixInto(o, "chorus", N("chorus", "delay"), N("chorus", "delay"),
                          10 - effects.chorus.mix, effects.chorus.mix)
         IN  [m EXCEPT !.nodes = @ \cup { "chorusDelayNode", "chorusOscillator",
                                          "chorusModulationGain", "chorusMixGain",
                                          "chorusDryGain" }]
    ELSE g

\* 4. Flanger effect (fixed mix, feedback loop around the delay)
SetupFlanger(g, effects) ==
    IF effects.flanger.enabled
    THEN LET o == [g EXCEPT
                     !.edges = @ \cup
                       { <<N("flanger", "oscillator"), N("flanger", "modulation")>>,
                         <<N("flanger", "modulation"), N("flanger", "delayTime")>>,
                         <<N("flanger", "delay"), N("flanger", "feedback")>>,
                         <<N("flanger", "feedback"), N("flanger", "delay")>> },
                     !.gain = @ @@ (N("flanger", "feedback") :> effects.flanger.feedback)]
             m == MixInto(o, "flanger", N("flanger", "delay"), N("flanger", "delay"), 5, 5)
         IN  [m EXCEPT !.nodes = @ \cup { "flangerDelayNode", "flangerOscillator",
                                          "flangerModulationGain", "flangerFeedbackGain",
                                          "flangerMixGain", "flangerDryGain" }]
    ELSE g

\* createPhaserFilters: all-pass filters 1..stages
PhaserFilter(i) == <<"phaser", "filter", i>>

\* 5. Phaser effect: the filters in series from currentNode, feedback from the
\* last filter to the first, fixed mix.
SetupPhaser(g, effects) ==
    IF effects.phaser.enabled
    THEN LET k == effects.phaser.stages
             o == [g EXCEPT
                     !.edges = @ \cup
                       { <<PhaserFilter(i), PhaserFilter(i + 1)>> : i \in 1..(k - 1) }
                       \cup { <<N("phaser", "modulation"), <<"phaser", "frequency", i>> >> :
                                i \in 1..k }
                       \cup { <<N("phaser", "oscillator"), N("phaser", "modulation")>>,
                              <<PhaserFilter(k), N("phaser", "feedback")>>,
                              <<N("phaser", "feedback"), PhaserFilter(1)>> },
                     !.gain = @ @@ (N("phaser", "feedback") :> effects.phaser.feedback)]
             m == MixInto(o, "phaser", PhaserFilter(1), PhaserFilter(k), 5, 5)
         IN  [m EXCEPT !.nodes = @ \cup { "phaserFilters", "phaserOscillator",
                                          "phaserModulationGain", "phaserFeedbackGain",
                                          "phaserMixGain", "phaserDryGain" }]
    ELSE g

\* 6. Compression effect
SetupCompression(g, effects) ==
    IF effects.compression.enabled
    THEN [g EXCEPT !.edges = @ \cup { <<g.cur, N("compression", "node")>> },
                   !.cur   = N("compression", "node"),
                   !.nodes = @ \cup { "compressorNode" }]
    ELSE g

\* A worklet block: try { register; new AudioWorkletNode; connect; store }
\* catch { log }.  The constructor throws when the processor is not registered
\* in the context, before anything is connected or stored.
WorkletBlock(g, stage, key, enabled, avail) ==
    IF enabled /\ ProcessorOf(stage) \in avail
    THEN [g EXCEPT !.edges = @ \cup { <<g.cur, N(stage, "node")>> },
                   !.cur   = N(stage, "node"),
                   !.nodes = @ \cup { key }]
    ELSE g

\* 7. Auto-tune effect
SetupAutoTune(g, effects, avail) ==
    WorkletBlock(g, "autoTune", "autoTuneNode", effects.autoTune.enabled, avail)

\* 8. Formant shift effect
SetupFormantShift(g, effects, avail) ==
    WorkletBlock(g, "formantShift", "formantShiftNode", effects.formantShift.enabled, avail)

\* 9. Time stretch effect
SetupTimeStretch(g, effects, avail) ==
    WorkletBlock(g, "timeStretch", "timeStretchNode", effects.timeStretch.enabled, avail)

\* 10. Granular synthesis effect
SetupGranular(g, effects, avail) ==
    WorkletBlock(g, "granular", "granularNode", effects.granular.enabled, avail)

\* The same blocks with compression composed before the phaser.
setupAdvancedAudioGraphSwapped(sourceNode, destinationNode, effects, avail) ==
    LET g0  == [NoNodes EXCEPT !.cur = sourceNode]
        g1  == SetupEcho(g0, effects)
        g2  == SetupDistortion(g1, effects)
        g3  == SetupChorus(g2, effects)
        g4  == SetupFlanger(g3, effects)
        g5  == SetupCompression(g4, effects)
        g6  == SetupPhaser(g5, effects)
        g7  == SetupAutoTune(g6, effects, avail)
        g8  == SetupFormantShift(g7, effects, avail)
        g9  == SetupTimeStretch(g8, effects, avail)
        g10 == SetupGranular(g9, effects, avail)
    IN  [g10 EXCEPT !.edges = @ \cup { <<g10.cur, destinationNode>> }]

\* The same blocks with the echo block run whatever its enabled flag says.
setupAdvancedAudioGraphAlwaysEcho(sourceNode, destinationNode, effects, avail) ==
    LET g0  == [NoNodes EXCEPT !.cur = sourceNode]
        g1  == SetupEcho(g0, [effects EXCEPT !.echo.enabled = TRUE])
        g2  == SetupDistortion(g1, effects)
        g3  == SetupChorus(g2, effects)
        g4  == SetupFlanger(g3, effects)
        g5  == SetupPhaser(g4, effects)
        g6  == SetupCompression(g5, effects)
        g7  == SetupAutoTune(g6, effects, avail)
        g8  == SetupFormantShift(g7, effects, avail)
        g9  == SetupTimeStretch(g8, effects, avail)
        g10 == SetupGranular(g9, effects, avail)
    IN  [g10 EXCEPT !.edges = @ \cup { <<g10.cur, destinationNode>> }]

\* The same blocks with a worklet block that, when its node cannot be created,
\* still makes the missing node the current node of the chain.
setupAdvancedAudioGraphNoBypass(sourceNode, destinationNode, effects, avail) ==
    LET Blk(g, stage, key) ==
            IF effects[stage].enabled /\ ProcessorOf(stage) \notin avail
            THEN [g EXCEPT !.cur = N(stage, "node")]
            ELSE WorkletBlock(g, stage, key, effects[stage].enabled, avail)
        g0  == [NoNodes EXCEPT !.cur = sourceNode]
        g1  == SetupEcho(g0, effects)
        g2  == SetupDistortion(g1, effects)
        g3  == SetupChorus(g2, effects)
        g4  == SetupFlanger(g3, effects)
        g5  == SetupPhaser(g4, effects)
        g6  == SetupCompression(g5, effects)
        g7  == Blk(g6, "autoTune", "autoTuneNode")
        g8  == Blk(g7, "formantShift", "formantShiftNode")
        g9  == Blk(g8, "timeStretch", "timeStretchNode")
        g10 == Blk(g9, "granular", "granularNode")
    IN  [g10 EXCEPT !.edges = @ \cup { <<g10.cur, destinationNode>> }]

\* setupAdvancedAudioGraph: the ten blocks in order, then the final node
\* connected to the destination; returns the stored nodes.
setupAdvancedAudioGraph(sourceNode, destinationNode, effects, avail) ==
    LET g0  == [NoNodes EXCEPT !.cur = sourceNode]
        g1  == SetupEcho(g0, effects)
        g2  == SetupDistortion(g1, effects)
        g3  == SetupChorus(g2, effects)
        g4  == SetupFlanger(g3, effects)
        g5  == SetupPhaser(g4, effects)
        g6  == SetupCompression(g5, effects)
        g7  == SetupAutoTune(g6, effects, avail)
        g8  == SetupFormantShift(g7, effects, avail)
        g9  == SetupTimeStretch(g8, effects, avail)
        g10 == SetupGranular(g9, effects, avail)
    IN  [g10 EXCEPT !.edges = @ \cup { <<g10.cur, destinationNode>> }]

\* Assigning gain.value of a stored node.
SetGain(g, node, v) == [g EXCEPT !.gain = [@ EXCEPT ![node] = v]]

\* updateAdvancedAudioEffects: for every effect that is enabled in the
\* snapshot and whose nodes are stored, the parameters are assigned as given.
\* (The worklet stages get a message; no gain of the graph changes.)
updateAdvancedAudioEffects(nodes, effects) ==
    LET has(keys) == keys \subseteq nodes.nodes
        u1 == IF effects.echo.enabled
                 /\ has({"echoDelayNode", "echoFeedbackGain", "echoMixGain", "echoDryGain"})
              THEN SetGain(SetGain(SetGain(nodes,
                       N("echo", "feedback"), effects.echo.feedback),
                       N("echo", "wet"), effects.echo.mix),
                       N("echo", "dry"), 10 - effects.echo.mix)
              ELSE nodes
        u3 == IF effects.chorus.enabled
                 /\ has({"chorusOscillator", "chorusModulationGain", "chorusMixGain",
                         "chorusDryGain"})
              THEN SetGain(SetGain(u1,
                       N("chorus", "wet"), effects.chorus.mix),
                       N("chorus", "dry"), 10 - effects.chorus.mix)
              ELSE u1
        u4 == IF effects.flanger.enabled
                 /\ has({"flangerDelayNode", "flangerOscillator", "flangerModulationGain",
                         "flangerFeedbackGain"})
              THEN SetGain(u3, N("flanger", "feedback"), effects.flanger.feedback)
              ELSE u3
        u5 == IF effects.phaser.enabled
                 /\ has({"phaserOscillator", "phaserModulationGain", "phaserFeedbackGain"})
              THEN SetGain(u4, N("phaser", "feedback"), effects.phaser.feedback)
              ELSE u4
    IN  u5

---------------------------------------------------------------------------
(* The basic graph *)

Pitch     == N("basic", "pitch")
Bass      == N("basic", "bassFilter")
Treble    == N("basic", "trebleFilter")
Convolver == N("basic", "convolver")
DryGain   == N("basic", "dryGain")
WetGain   == N("basic", "wetGain")
OutGain   == N("basic", "outputGain")

\* The type and corner frequency setupAudioGraph gives the two filters.
FilterKind == (Bass :> [type |-> "lowshelf", frequency |-> 200])
              @@ (Treble :> [type |-> "highshelf", frequency |-> 3000])

\* setupAudioGraph: source -> [pitch] -> bass -> treble -> dry / convolver+wet
\* -> output gain -> destination.  pitchNode is null when the worklet node
\* cannot be created; the source then feeds the bass filter directly.
setupAudioGraph(effects, avail) ==
    LET pitchNode == ProcessorOf("pitch") \in avail
    IN  [ sourceNode |-> Source,
          pitchNode  |-> pitchNode,
          edges |-> (IF pitchNode
                     THEN { <<Source, Pitch>>, <<Pitch, Bass>> }
                     ELSE { <<Source, Bass>> })
                    \cup { <<Bass, Treble>>,
                           <<Treble, DryGain>>, <<DryGain, OutGain>>,
                           <<Treble, Convolver>>, <<Convolver, WetGain>>,
                           <<WetGain, OutGain>>,
                           <<OutGain, Destination>> },
          gain  |-> (WetGain :> effects.reverb) @@ (DryGain :> 10 - effects.reverb)
                    @@ (OutGain :> 10)
                    @@ (Bass :> effects.bass) @@ (Treble :> effects.treble),
          pitch |-> effects.pitch,
          playbackRate |-> effects.speed ]

\* updateAudioEffects: filter gains, reverb mix, playback rate and the pitch
\* message, on the nodes it is handed.
updateAudioEffects(nodes, effects) ==
    [nodes EXCEPT !.gain = (WetGain :> effects.reverb) @@ (DryGain :> 10 - effects.reverb)
                           @@ (Bass :> effects.bass) @@ (Treble :> effects.treble) @@ @,
                  !.pitch = IF nodes.pitchNode THEN effects.pitch ELSE @,
                  !.playbackRate = effects.speed]

\* No basic nodes yet.
NoBasic == [sourceNode |-> Source, pitchNode |-> FALSE, edges |-> {},
            gain |-> <<>>, pitch |-> 0, playbackRate |-> 10]

---------------------------------------------------------------------------
(* The AudioPlayer component.  A handler invocation runs from one await to   *)
(* the next as one step; it reads React state from the closure of the       *)
(* render that created it and refs from the shared ref objects.             *)

MaxCalls == 3
MaxTasks == 2

Tasks  == 1..MaxTasks
CtxIds == 1..MaxCalls

\* The effects the advanced panel switches on and off here: one node-built
\* stage and one worklet stage.
PlayerStages == { "echo", "autoTune" }

WithEnabled(en) ==
    [ s \in Stages |-> [defaultAdvancedEffects[s] EXCEPT !.enabled = (s \in en)] ]

AdvancedInputs == { WithEnabled(en) : en \in SUBSET PlayerStages }

BasicInputs ==
    { applyCharacterPreset(defaultEffects, c) : c \in {"normal", "chipmunk", "robot"} }

\* What the browser decides when a context is created: whether the
\* constructor throws, the state the context starts in, and the processors
\* whose module loads in it.
Envs ==
    [ ctxThrows : BOOLEAN, suspended : BOOLEAN,
      avail : { Processors, Processors \ {ProcessorOf("autoTune")} } ]

NoCtx ==
    [ state |-> "none", avail |-> {}, basic |-> NoBasic, adv |-> NoNodes,
      builtBy |-> "none", requested |-> << >>, basicUsed |-> << >>, advUsed |-> << >> ]

IdleTask ==
    [ kind |-> "idle", pc |-> "idle",
      cl |-> [basicEffects |-> defaultEffects, advancedEffects |-> defaultAdvancedEffects],
      new |-> << >>, wasPlaying |-> FALSE, ctx |-> 0, awaited |-> 0, rejected |-> FALSE,
      prev |-> 0 ]

World ==
    [ isPlaying |-> isPlaying, basicEffects |-> basicEffects,
      advancedEffects |-> advancedEffects,
      audioContextInitialized |-> audioContextInitialized,
      audioContextRef |-> audioContextRef, basicNodesRef |-> basicNodesRef,
      advancedNodesRef |-> advancedNodesRef, effectsAppliedRef |-> effectsAppliedRef,
      sourceNodeCreatedRef |-> sourceNodeCreatedRef, paused |-> paused, ctx |-> ctx,
      elementSources |-> elementSources, tasks |-> tasks, calls |-> calls,
      caught |-> caught ]

Commit(w) ==
    /\ isPlaying' = w.isPlaying
    /\ basicEffects' = w.basicEffects
    /\ advancedEffects' = w.advancedEffects
    /\ audioContextInitialized' = w.audioContextInitialized
    /\ audioContextRef' = w.audioContextRef
    /\ basicNodesRef' = w.basicNodesRef
    /\ advancedNodesRef' = w.advancedNodesRef
    /\ effectsAppliedRef' = w.effectsAppliedRef
    /\ sourceNodeCreatedRef' = w.sourceNodeCreatedRef
    /\ paused' = w.paused
    /\ ctx' = w.ctx
    /\ elementSources' = w.elementSources
    /\ tasks' = w.tasks
    /\ calls' = w.calls
    /\ caught' = w.caught

Abs(x) == IF x < 0 THEN -x ELSE x

\* The two update effects, run after the render that follows a state change:
\* each runs when one of its dependencies changed, on whatever the refs hold
\* by then, with the state of the new render.
RunEffects(old, w) ==
    LET initChanged == old.audioContextInitialized # w.audioContextInitialized
        w1 == IF /\ (old.basicEffects # w.basicEffects \/ initChanged)
                 /\ w.audioContextInitialized /\ w.basicNodesRef # 0
              THEN [w EXCEPT !.ctx[w.basicNodesRef].basic =
                                 updateAudioEffects(@, w.basicEffects)]
              ELSE w
    IN  IF /\ (old.advancedEffects # w.advancedEffects \/ initChanged)
           /\ w1.audioContextInitialized /\ w1.advancedNodesRef # 0
        THEN [w1 EXCEPT !.ctx[w1.advancedNodesRef].adv =
                            updateAdvancedAudioEffects(@, w1.advancedEffects)]
        ELSE w1

\* audioRef.current.pause(): the element is paused and the pending play()
\* promises are rejected.
pause(w) ==
    [w EXCEPT !.paused = TRUE,
              !.tasks = [t \in Tasks |->
                           IF w.tasks[t].pc = "play"
                           THEN [w.tasks[t] EXCEPT !.rejected = TRUE]
                           ELSE w.tasks[t]]]

\* await audioRef.current.play(): paused is cleared at the call.
play(w, t) ==
    [w EXCEPT !.paused = FALSE, !.tasks[t].pc = "play", !.tasks[t].rejected = FALSE]

finish(w, t) == [w EXCEPT !.tasks[t] = IdleTask]

\* A handler is entered: its closure is the state of the render it was
\* created in, which is the state before any setter it calls.
enter(w, t, kind, new, wasPlaying) ==
    [w EXCEPT !.calls = @ + 1,
              !.tasks[t] = [IdleTask EXCEPT
                              !.kind = kind, !.pc = "run", !.new = new,
                              !.wasPlaying = wasPlaying,
                              !.cl = [basicEffects |-> w.basicEffects,
                                      advancedEffects |-> w.advancedEffects]]]

\* togglePlayPause after the init: resume a suspended context, then play.
toggleTail(w, t) ==
    IF w.audioContextRef # 0 /\ w.ctx[w.audioContextRef].state = "suspended"
    THEN [w EXCEPT !.tasks[t].pc = "resume", !.tasks[t].awaited = w.audioContextRef]
    ELSE play(w, t)

\* What each caller does once `await initAudioContext()` returns.
afterInit(w, t) ==
    CASE w.tasks[t].kind = "toggle"   -> toggleTail(w, t)
      [] w.tasks[t].kind = "basic"    -> play(w, t)
      [] w.tasks[t].kind = "advanced" ->
           IF w.tasks[t].wasPlaying THEN play(w, t) ELSE finish(w, t)

\* initAudioContext, the catch block
initCatch(w, t) ==
    afterInit([w EXCEPT !.audioContextInitialized = FALSE,
                        !.caught = @ \cup ({w.tasks[t].prev} \ {0})], t)

\* initAudioContext, "Mark as initialized"
initMarkInitialized(w, t) ==
    afterInit([w EXCEPT !.audioContextInitialized = TRUE,
                        !.effectsAppliedRef = TRUE,
                        !.sourceNodeCreatedRef = TRUE], t)

\* initAudioContext, setupAdvancedAudioGraph has returned or thrown.  It was
\* handed the context audioContextRef held at the call (awaited) and the
\* source node of the task's own context: connecting nodes of two contexts
\* throws.
initAdvancedReturned(w, t) ==
    LET a == w.tasks[t].ctx
    IN  IF w.tasks[t].awaited # a
        THEN initCatch(w, t)
        ELSE initMarkInitialized(
               [w EXCEPT !.ctx[a].adv =
                             setupAdvancedAudioGraph(Source, Destination,
                                 w.tasks[t].cl.advancedEffects, w.ctx[a].avail),
                         !.advancedNodesRef = a], t)

\* initAudioContext, "Set up advanced audio processing graph if any effects
\* are enabled": decided on the closure's advancedEffects.  Reading
\* audioContextRef.current.destination throws when the ref is null; a
\* node-built stage throws at its first connect when the ref holds another
\* context; with a worklet stage enabled the setup awaits the module.
initAdvanced(w, t) ==
    LET a  == w.tasks[t].ctx
        en == EnabledOf(w.tasks[t].cl.advancedEffects)
    IN  IF en # {} /\ w.basicNodesRef # 0
        THEN IF w.audioContextRef = 0
             THEN initCatch(w, t)
             ELSE IF w.audioContextRef # a /\ en \ WorkletStages # {}
             THEN initCatch(w, t)
             ELSE IF en \cap WorkletStages # {}
             THEN [w EXCEPT !.tasks[t].pc = "advanced",
                            !.tasks[t].awaited = w.audioContextRef]
             ELSE initAdvancedReturned([w EXCEPT !.tasks[t].awaited = w.audioContextRef], t)
        ELSE initMarkInitialized(w, t)

\* initAudioContext, setupAudioGraph after its worklet module was awaited:
\* createMediaElementSource throws when the element already has a source
\* node; otherwise the basic graph is built from the closure's basicEffects
\* in the context the call was handed.
initBasicReturned(w, t) ==
    LET a  == w.tasks[t].ctx
        cl == w.tasks[t].cl
    IN  IF w.elementSources # {}
        THEN initCatch(w, t)
        ELSE initAdvanced(
               [w EXCEPT !.elementSources = {a},
                         !.ctx[a].basic = setupAudioGraph(cl.basicEffects, w.ctx[a].avail),
                         !.ctx[a].basicUsed = << cl.basicEffects >>,
                         !.ctx[a].advUsed = << cl.advancedEffects >>,
                         !.basicNodesRef = a], t)

NewCtxId(w) == 1 + Cardinality({ c \in CtxIds : w.ctx[c].state # "none" })

\* initAudioContext, "Create new audio context" up to the await inside
\* setupAudioGraph.
initCreate(w, t, env) ==
    IF env.ctxThrows
    THEN initCatch(w, t)
    ELSE LET a == NewCtxId(w)
         IN  [w EXCEPT !.ctx[a] = [NoCtx EXCEPT
                                     !.state = IF env.suspended THEN "suspended"
                                               ELSE "running",
                                     !.avail = env.avail,
                                     !.builtBy = w.tasks[t].kind,
                                     !.requested = w.tasks[t].new],
                       !.audioContextRef = a,
                       !.tasks[t].ctx = a,
                       !.tasks[t].pc = "worklet"]

\* initAudioContext, the finally block after `await close()`, then on.
initAfterClose(w, t, env) ==
    initCreate([w EXCEPT !.ctx[w.tasks[t].awaited].state = "closed",
                         !.audioContextRef = 0,
                         !.basicNodesRef = 0,
                         !.advancedNodesRef = 0,
                         !.sourceNodeCreatedRef = FALSE], t, env)

\* The context whose graph is in use: referenced, open, built and marked
\* initialized (0 when there is none).
ActiveCtx(w) ==
    IF /\ w.audioContextRef # 0
       /\ w.ctx[w.audioContextRef].state # "closed"
       /\ w.basicNodesRef = w.audioContextRef
       /\ w.audioContextInitialized
    THEN w.audioContextRef
    ELSE 0

\* initAudioContext from its entry to its first await: "Clean up existing
\* context if any" disconnects the output gain and closes the context.
initAudioContext(w, t, env) ==
    LET w0 == [w EXCEPT !.tasks[t].prev = ActiveCtx(w)]
    IN  IF w.audioContextRef # 0 /\ w.ctx[w.audioContextRef].state # "closed"
        THEN LET w1 == IF w.basicNodesRef # 0
                       THEN [w0 EXCEPT !.ctx[w.basicNodesRef].basic.edges =
                                           { e \in @ : e[1] # OutGain }]
                       ELSE w0
             IN  [w1 EXCEPT !.tasks[t].pc = "close",
                            !.tasks[t].awaited = w.audioContextRef]
        ELSE initCreate(w0, t, env)

\* togglePlayPause up to its first await.
togglePlayPause(w, t, env) ==
    IF w.isPlaying
    THEN [pause(w) EXCEPT !.isPlaying = FALSE, !.calls = @ + 1]
    ELSE LET w1 == enter(w, t, "toggle", << >>, FALSE)
         IN  IF ~w.audioContextInitialized
             THEN initAudioContext([w1 EXCEPT !.sourceNodeCreatedRef = FALSE], t, env)
             ELSE toggleTail(w1, t)

\* handleBasicEffectsChange up to its first await.
handleBasicEffectsChange(w, t, newEffects, env) ==
    LET significantChange ==
            \/ newEffects.pitch # w.basicEffects.pitch
            \/ Abs(newEffects.speed - w.basicEffects.speed) > 1
    IN  IF w.isPlaying /\ significantChange /\ ~w.effectsAppliedRef
        THEN initAudioContext(
               [pause(enter(w, t, "basic", << newEffects >>, FALSE))
                   EXCEPT !.basicEffects = newEffects,
                          !.sourceNodeCreatedRef = FALSE], t, env)
        ELSE [w EXCEPT !.basicEffects = newEffects, !.calls = @ + 1]

\* handleAdvancedEffectsChange up to its first await.
handleAdvancedEffectsChange(w, t, newEffects, env) ==
    LET wasAnyEffectEnabled == EnabledOf(w.advancedEffects) # {}
        isAnyEffectEnabled  == EnabledOf(newEffects) # {}
        wasPlaying == ~w.paused
    IN  IF wasAnyEffectEnabled # isAnyEffectEnabled
        THEN LET w2 == enter(w, t, "advanced", << newEffects >>, wasPlaying)
                 w3 == IF wasPlaying THEN pause(w2) ELSE w2
             IN  initAudioContext([w3 EXCEPT !.advancedEffects = newEffects,
                                             !.sourceNodeCreatedRef = FALSE], t, env)
        ELSE [w EXCEPT !.advancedEffects = newEffects, !.calls = @ + 1]

\* The promise of play() settles: togglePlayPause sets isPlaying when it
\* resolved; the other callers only log a rejection.
playSettled(w, t) ==
    IF w.tasks[t].kind = "toggle" /\ ~w.tasks[t].rejected
    THEN finish([w EXCEPT !.isPlaying = TRUE], t)
    ELSE finish(w, t)

\* The promise of resume() settles: rejected on a closed context (caught by
\* togglePlayPause, which then does not play).
resumeSettled(w, t) ==
    LET c == w.tasks[t].awaited
    IN  IF w.ctx[c].state = "closed"
        THEN finish(w, t)
        ELSE play([w EXCEPT !.ctx[c].state = "running"], t)

\* "Clean up on unmount or when audio changes", at the unmount: the element
\* is paused, the context the ref holds is closed (the promise of close() is
\* not awaited; the context counts as closed from the call) and the refs
\* are cleared.
cleanup(w) ==
    LET w1 == pause(w)
        w2 == IF w1.audioContextRef # 0 /\ w1.ctx[w1.audioContextRef].state # "closed"
              THEN [w1 EXCEPT !.ctx[w1.audioContextRef].state = "closed",
                              !.audioContextRef = 0,
                              !.basicNodesRef = 0,
                              !.advancedNodesRef = 0]
              ELSE w1
    IN  [w2 EXCEPT !.isPlaying = FALSE,
                   !.effectsAppliedRef = FALSE,
                   !.sourceNodeCreatedRef = FALSE]

---------------------------------------------------------------------------
(* The worklet processors. Read positions, rates and pitch ratios are in   *)
(* halves (1.5 is 3); samples are even integers, so a linear interpolation *)
(* at a half stays an integer.                                             *)

BlockLen == 2          \* samples in one render quantum
WindowSize == 2        \* this.windowSize, scaled down
Samples == {0, 2}

Min(a, b) == IF a < b THEN a ELSE b
Max(a, b) == IF a > b THEN a ELSE b

\* outputs[0][0] as the browser hands it to process: zero-filled.
Zeros(n) == [i \in 1..n |-> 0]

\* inputs[0]: without a channel, or with a channel 0 of at most a block.
InputBlocks ==
    { [hasChannel |-> FALSE, channel |-> << >>] } \cup
    { [hasChannel |-> TRUE, channel |-> c] :
          c \in UNION { [1..n -> Samples] : n \in 0..BlockLen } }

\* a * (1 - frac) + b * frac, with frac in halves.
Lerp(a, b, frac) == (a * (2 - frac) + b * frac) \div 2

\* ---- TimeStretchProcessor
NewTimeStretchProcessor ==
    [ rate |-> 2, buffer |-> Zeros(WindowSize * 2), bufferFill |-> 0,
      readPosition |-> 0 ]

\* port.onmessage: the rate is clamped to [0.5, 2.0].
TimeStretchOnMessage(p, rate) == [p EXCEPT !.rate = Max(1, Min(4, rate))]

\* "Add input to buffer"
RECURSIVE TimeStretchAddInput(_, _, _)
TimeStretchAddInput(p, inputChannel, i) ==
    IF i >= Len(inputChannel) THEN p
    ELSE TimeStretchAddInput(
             [p EXCEPT !.buffer[p.bufferFill + 1] = inputChannel[i + 1],
                       !.bufferFill = (p.bufferFill + 1) % Len(p.buffer)],
             inputChannel, i + 1)

\* A read loop that wraps the cursor only once it is past the buffer length.
RECURSIVE TimeStretchReadLateWrap(_, _, _)
TimeStretchReadLateWrap(p, outputChannel, i) ==
    IF i >= Len(outputChannel) THEN [p |-> p, outputChannel |-> outputChannel]
    ELSE LET readPosInt == p.readPosition \div 2
             readPosFrac == p.readPosition % 2
             pos1 == readPosInt % Len(p.buffer)
             pos2 == (readPosInt + 1) % Len(p.buffer)
             sample == Lerp(p.buffer[pos1 + 1], p.buffer[pos2 + 1], readPosFrac)
             advanced == p.readPosition + p.rate
             wrapped == IF advanced > 2 * Len(p.buffer)
                        THEN advanced - 2 * Len(p.buffer)
                        ELSE advanced
         IN  TimeStretchReadLateWrap([p EXCEPT !.readPosition = wrapped],
                                     [outputChannel EXCEPT ![i + 1] = sample], i + 1)

\* "Read from buffer at time-stretched rate"
RECURSIVE TimeStretchRead(_, _, _)
TimeStretchRead(p, outputChannel, i) ==
    IF i >= Len(outputChannel) THEN [p |-> p, outputChannel |-> outputChannel]
    ELSE LET readPosInt == p.readPosition \div 2
             readPosFrac == p.readPosition % 2
             pos1 == readPosInt % Len(p.buffer)
             pos2 == (readPosInt + 1) % Len(p.buffer)
             sample == Lerp(p.buffer[pos1 + 1], p.buffer[pos2 + 1], readPosFrac)
             advanced == p.readPosition + p.rate
             wrapped == IF advanced >= 2 * Len(p.buffer)
                        THEN advanced - 2 * Len(p.buffer)
                        ELSE advanced
         IN  TimeStretchRead([p EXCEPT !.readPosition = wrapped],
                             [outputChannel EXCEPT ![i + 1] = sample], i + 1)

TimeStretchProcess(p, input, outputChannel) ==
    IF ~input.hasChannel
    THEN [p |-> p, outputChannel |-> outputChannel]
    ELSE TimeStretchRead(TimeStretchAddInput(p, input.channel, 0), outputChannel, 0)

\* ---- PitchShifterProcessor
NewPitchShifterProcessor == [ pitchRatio |-> 2 ]

\* port.onmessage: the ratio is stored as sent.
PitchShifterOnMessage(p, pitchRatio) == [p EXCEPT !.pitchRatio = pitchRatio]

\* The ratios sent in the model: 0.5, 1.0 and 2.0, for which i / pitchRatio
\* is a whole number of halves.
PitchRatioInputs == {1, 2, 4}

\* A resampling loop that holds the last input sample past the end of the
\* input.
RECURSIVE PitchShifterResampleHold(_, _, _, _)
PitchShifterResampleHold(p, inputChannel, outputChannel, i) ==
    IF i >= Len(inputChannel) THEN outputChannel
    ELSE LET readPos == (4 * i) \div p.pitchRatio
             readPosFloor == readPos \div 2
             readPosFrac == readPos % 2
             sample ==
                 IF readPosFloor >= 0 /\ readPosFloor < Len(inputChannel) - 1
                 THEN Lerp(inputChannel[readPosFloor + 1],
                           inputChannel[readPosFloor + 2], readPosFrac)
                 ELSE inputChannel[Len(inputChannel)]
         IN  PitchShifterResampleHold(p, inputChannel,
                                      [outputChannel EXCEPT ![i + 1] = sample], i + 1)

RECURSIVE PitchShifterResample(_, _, _, _)
PitchShifterResample(p, inputChannel, outputChannel, i) ==
    IF i >= Len(inputChannel) THEN outputChannel
    ELSE LET readPos == (4 * i) \div p.pitchRatio
             readPosFloor == readPos \div 2
             readPosFrac == readPos % 2
             sample ==
                 IF readPosFloor >= 0 /\ readPosFloor < Len(inputChannel) - 1
                 THEN Lerp(inputChannel[readPosFloor + 1],
                           inputChannel[readPosFloor + 2], readPosFrac)
                 ELSE IF readPosFloor >= 0 /\ readPosFloor < Len(inputChannel)
                      THEN inputChannel[readPosFloor + 1]
                      ELSE 0
         IN  PitchShifterResample(p, inputChannel,
                                  [outputChannel EXCEPT ![i + 1] = sample], i + 1)

PitchShifterProcess(p, input, outputChannel) ==
    IF ~input.hasChannel
    THEN outputChannel
    ELSE PitchShifterResample(p, input.channel, outputChannel, 0)

NoBlock ==
    [ processor |-> "none", input |-> [hasChannel |-> FALSE, channel |-> << >>],
      outputChannel |-> Zeros(BlockLen), param |-> 0, cursor |-> 0 ]

\* The processors as constructed, before any block.
WOff ==
    /\ timeStretchProcessor = NewTimeStretchProcessor
    /\ pitchShifterProcessor = NewPitchShifterProcessor
    /\ block = NoBlock

---------------------------------------------------------------------------
(* Parameter messages of the auto-tune and formant-shift processors.       *)
(* The auto-tune amount is in tenths; a formant frequency is in 1/36 Hz,   *)
(* the unit in which 500, 1500 and 2500 Hz times 1.5^shift are whole       *)
(* numbers for every whole shift in [-2, 2].                               *)

RECURSIVE Pow(_, _)
Pow(b, n) == IF n = 0 THEN 1 ELSE b * Pow(b, n - 1)

\* Math.pow(1.5, shift) as a fraction, for a whole shift.
Pow15(shift) ==
    IF shift >= 0
    THEN [num |-> Pow(3, shift), den |-> Pow(2, shift)]
    ELSE [num |-> Pow(2, -shift), den |-> Pow(3, -shift)]

\* ---- AutoTuneProcessor: this.scales
scales ==
    [ chromatic |-> <<0, 1, 2, 3, 4, 5, 6, 7, 8, 9, 10, 11>>,
      major     |-> <<0, 2, 4, 5, 7, 9, 11>>,
      minor     |-> <<0, 2, 3, 5, 7, 8, 10>> ]

\* event.data of an auto-tune message: scale "" stands for an absent scale,
\* hasAmount FALSE for an absent amount.
AutoTuneMessages ==
    { [scale |-> s, hasAmount |-> FALSE, amount |-> 0] : s \in {"minor", "blues"} } \cup
    { [scale |-> "", hasAmount |-> TRUE, amount |-> a] : a \in {-5, 15} } \cup
    { [scale |-> "minor", hasAmount |-> TRUE, amount |-> 5] }

\* port.onmessage of AutoTuneProcessor.
AutoTuneOnMessage(p, data) ==
    LET p1 == IF data.scale # ""
              THEN [p EXCEPT !.currentScale =
                        IF data.scale \in DOMAIN scales
                        THEN scales[data.scale] ELSE scales.major]
              ELSE p
    IN  IF data.hasAmount
        THEN [p1 EXCEPT !.amount = Max(0, Min(10, data.amount))]
        ELSE p1

\* ---- FormantShiftProcessor
FormantBase == <<500, 1500, 2500>>

FormantFrequency(base, shift) == (base * 36 * Pow15(shift).num) \div Pow15(shift).den

NewFormantShiftProcessor ==
    [ shift |-> 0,
      formantFilters |->
          << [frequency |-> 500 * 36,  Q |-> 10, gain |-> 10],
             [frequency |-> 1500 * 36, Q |-> 8,  gain |-> 7],
             [frequency |-> 2500 * 36, Q |-> 6,  gain |-> 4] >> ]

ShiftInputs == -3..3

\* A handler that takes the shift as sent, without the clamp.
FormantShiftOnMessageUnclamped(p, shift) ==
    [p EXCEPT !.shift = shift,
              !.formantFilters[1].frequency = FormantFrequency(500, shift),
              !.formantFilters[2].frequency = FormantFrequency(1500, shift),
              !.formantFilters[3].frequency = FormantFrequency(2500, shift)]

\* port.onmessage of FormantShiftProcessor.
FormantShiftOnMessage(p, shift) ==
    LET clamped == Max(-2, Min(2, shift))
    IN  [p EXCEPT !.shift = clamped,
                  !.formantFilters[1].frequency = FormantFrequency(500, clamped),
                  !.formantFilters[2].frequency = FormantFrequency(1500, clamped),
                  !.formantFilters[3].frequency = FormantFrequency(2500, clamped)]

\* No message delivered yet.
NoMessages == [rate |-> << >>, amount |-> << >>, shift |-> << >>]

\* ---- FormantShiftProcessor: the biquad filters. Samples and the values
\* kept in a Float32Array are whole numbers; what the code computes in
\* double precision is kept exactly, in ten-thousandths.

\* Storing a number in a Float32Array: n / d rounded to the nearest value
\* the array can hold, ties to even.
fround(n, d) ==
    LET q == n \div d
        r == n % d
    IN  IF 2 * r < d THEN q
        ELSE IF 2 * r > d THEN q + 1
        ELSE IF q % 2 = 0 THEN q ELSE q + 1

\* a1 / a0 = -2 * cos(w0) / (1 + alpha) and a2 / a0 = (1 - alpha) / (1 + alpha)
\* in thousandths, for w0 = 2 * PI * frequency / sampleRate and
\* alpha = sin(w0) / (2 * Q), at sampleRate 44100, by frequency in 1/36 Hz.
BiquadTable ==
    8000 :> [a1 |-> -1996, a2 |-> 997] @@ 12000 :> [a1 |-> -1993, a2 |-> 995] @@ 18000 :> [a1 |-> -1988, a2 |-> 993] @@
    27000 :> [a1 |-> -1978, a2 |-> 989] @@ 40500 :> [a1 |-> -1959, a2 |-> 984] @@ 24000 :> [a1 |-> -1979, a2 |-> 988] @@
    36000 :> [a1 |-> -1962, a2 |-> 982] @@ 54000 :> [a1 |-> -1929, a2 |-> 974] @@ 81000 :> [a1 |-> -1861, a2 |-> 961] @@
    121500 :> [a1 |-> -1723, a2 |-> 944] @@ 40000 :> [a1 |-> -1949, a2 |-> 974] @@ 60000 :> [a1 |-> -1907, a2 |-> 962] @@
    90000 :> [a1 |-> -1822, a2 |-> 944] @@ 135000 :> [a1 |-> -1651, a2 |-> 919] @@ 202500 :> [a1 |-> -1313, a2 |-> 887]

\* this.x1, this.x2, this.y1, this.y2 = new Float32Array(3)
NoHistory == [ x1 |-> <<0, 0, 0>>, x2 |-> <<0, 0, 0>>,
               y1 |-> <<0, 0, 0>>, y2 |-> <<0, 0, 0>> ]

\* An applyFilter that keeps the history of every formant at index 0.
applyFilterShared(h, sample, filter, filterIndex) ==
    LET c == BiquadTable[filter.frequency]
        result == filter.gain * 1000 * sample
                  + filter.gain * c.a1 * h.x1[1] + filter.gain * c.a2 * h.x2[1]
                  - 10 * c.a1 * h.y1[1] - 10 * c.a2 * h.y2[1]
    IN  [ h |-> [ x1 |-> [h.x1 EXCEPT ![1] = sample],
                  x2 |-> [h.x2 EXCEPT ![1] = h.x1[1]],
                  y1 |-> [h.y1 EXCEPT ![1] = fround(result, 10000)],
                  y2 |-> [h.y2 EXCEPT ![1] = h.y1[1]] ],
          result |-> result ]

\* applyFilter(sample, filter, filterIndex) of the external processor, on
\* the history h; filterIndex counts from 0. b0 / a0 is filter.gain, b1 / a0
\* is filter.gain * a1 / a0 and b2 / a0 is filter.gain * a2 / a0. result is
\* in ten-thousandths.
applyFilter(h, sample, filter, filterIndex) ==
    LET c == BiquadTable[filter.frequency]
        k == filterIndex + 1
        result == filter.gain * 1000 * sample
                  + filter.gain * c.a1 * h.x1[k] + filter.gain * c.a2 * h.x2[k]
                  - 10 * c.a1 * h.y1[k] - 10 * c.a2 * h.y2[k]
    IN  [ h |-> [ x1 |-> [h.x1 EXCEPT ![k] = sample],
                  x2 |-> [h.x2 EXCEPT ![k] = h.x1[k]],
                  y1 |-> [h.y1 EXCEPT ![k] = fround(result, 10000)],
                  y2 |-> [h.y2 EXCEPT ![k] = h.y1[k]] ],
          result |-> result ]

\* "Apply formant filters": the loop over this.formantFilters for one sample.
RECURSIVE FormantFilters(_, _, _, _, _)
FormantFilters(p, h, sample, filteredSample, j) ==
    IF j >= Len(p.formantFilters) THEN [h |-> h, filteredSample |-> filteredSample]
    ELSE LET r == applyFilter(h, sample, p.formantFilters[j + 1], j)
         IN  FormantFilters(p, r.h, sample, filteredSample + r.result, j + 1)

\* "Process each sample" of the external processor.
RECURSIVE FormantSamples(_, _, _, _, _)
FormantSamples(p, h, inputChannel, outputChannel, i) ==
    IF i >= Len(inputChannel) THEN [h |-> h, outputChannel |-> outputChannel]
    ELSE LET sample == inputChannel[i + 1]
             r == FormantFilters(p, h, sample, 0, 0)
         IN  FormantSamples(p, r.h, inputChannel,
                 [outputChannel EXCEPT
                     ![i + 1] = fround(3 * 10000 * sample + 7 * r.filteredSample, 100000)],
                 i + 1)

\* process(inputs, outputs) of the external processor.
FormantShiftProcess(p, h, input, outputChannel) ==
    IF ~input.hasChannel THEN [h |-> h, outputChannel |-> outputChannel]
    ELSE FormantSamples(p, h, input.channel, outputChannel, 0)

\* applyFilter(sample, filter) of the inline processor: (b0 / a0) * sample.
applyFilterInline(sample, filter) == filter.gain * 1000 * sample

\* "Process each sample" of the inline processor.
FormantSamplesInline(p, inputChannel, outputChannel) ==
    [ i \in 1..Len(outputChannel) |->
        IF i > Len(inputChannel) THEN outputChannel[i]
        ELSE LET sample == inputChannel[i]
                 filteredSample == applyFilterInline(sample, p.formantFilters[1])
                                   + applyFilterInline(sample, p.formantFilters[2])
                                   + applyFilterInline(sample, p.formantFilters[3])
             IN  fround(3 * 10000 * sample + 7 * filteredSample, 100000) ]

\* process(inputs, outputs) of the inline processor.
FormantShiftProcessInline(p, input, outputChannel) ==
    IF ~input.hasChannel THEN outputChannel
    ELSE FormantSamplesInline(p, input.channel, outputChannel)

MaxFormantBlocks == 3    \* process calls followed

\* Input samples: the Float32Array grid scaled so that a sample times a gain
\* of 0.7 or 0.4 falls between two values of the grid.
FormantSamplesIn == {-1001, 1001}

\* inputs[0] of the formant node: without a channel, or a full block.
FormantInputBlocks ==
    { [hasChannel |-> FALSE, channel |-> << >>] } \cup
    { [hasChannel |-> TRUE, channel |-> c] : c \in [1..BlockLen -> FormantSamplesIn] }

\* ---- AutoTuneProcessor: pitch detection and correction. Pitches are in
\* hundredths of a Hz; an output sample is a fraction num / den (den 0 is
\* NaN, what a Float32Array stores for an undefined value).

AutoTuneBufferSize == 4       \* this.bufferSize, scaled down

\* The sample rates of the model: a zero crossing in the detection buffer
\* counts for 50 or for 1000 Hz.
SampleRates == { 100 * AutoTuneBufferSize, 2000 * AutoTuneBufferSize }

AutoTuneSamples == {-2, 2}

AutoTuneInputBlocks ==
    { [hasChannel |-> FALSE, channel |-> << >>] } \cup
    { [hasChannel |-> TRUE, channel |-> c] :
          c \in UNION { [1..n -> AutoTuneSamples] : n \in 0..BlockLen } }

Frac(num, den) == [num |-> num, den |-> den]
NaN == Frac(0, 0)
FracZeros(n) == [i \in 1..n |-> Frac(0, 1)]

NewAutoTuneProcessor(rate) ==
    [ currentScale |-> scales.major, amount |-> 5, rootNote |-> 0,
      buffer |-> Zeros(AutoTuneBufferSize), bufferIndex |-> 0,
      currentPitch |-> 0, targetPitch |-> 0, sampleRate |-> rate ]

\* detectPitch: zero crossings of the buffer over twice its duration.
RECURSIVE Crossings(_, _, _)
Crossings(buffer, i, prevSample) ==
    IF i >= Len(buffer) THEN 0
    ELSE (IF \/ (prevSample < 0 /\ buffer[i + 1] >= 0)
             \/ (prevSample >= 0 /\ buffer[i + 1] < 0)
          THEN 1 ELSE 0)
         + Crossings(buffer, i + 1, buffer[i + 1])

detectPitch(p, buffer) ==
    (Crossings(buffer, 0, 0) * p.sampleRate * 100) \div (2 * Len(buffer))

\* 12 * (Math.log2(frequency / 440) + 4.75) in hundredths, by frequency in Hz.
NoteNumberTable ==
    50 :> 1935 @@ 2000 :> 8321 @@
    100 :> 3135 @@ 150 :> 3837 @@ 200 :> 4335 @@ 220 :> 4500 @@ 250 :> 4721 @@
    300 :> 5037 @@ 350 :> 5304 @@ 400 :> 5535 @@ 440 :> 5700 @@ 450 :> 5739 @@
    500 :> 5921 @@ 510 :> 5956 @@ 550 :> 6086 @@ 600 :> 6237 @@ 650 :> 6376 @@
    700 :> 6504 @@ 750 :> 6623 @@ 800 :> 6735 @@ 850 :> 6840 @@ 880 :> 6900 @@
    900 :> 6939 @@ 950 :> 7033 @@ 1000 :> 7121 @@ 1050 :> 7206 @@ 1100 :> 7286 @@
    1150 :> 7363 @@ 1200 :> 7437 @@ 1250 :> 7508 @@ 1300 :> 7576 @@ 1350 :> 7641 @@
    1400 :> 7704 @@ 1450 :> 7765 @@ 1500 :> 7823 @@ 1550 :> 7880 @@ 1600 :> 7935 @@
    1650 :> 7988 @@ 1700 :> 8040 @@ 1750 :> 8090 @@ 1800 :> 8139 @@ 1850 :> 8186 @@
    1900 :> 8233 @@ 1950 :> 8277

\* 440 * Math.pow(2, (n - 69) / 12) in hundredths of a Hz, by n.
NoteFrequencyTable ==
    0 :> 818 @@ 1 :> 866 @@ 2 :> 918 @@ 3 :> 972 @@ 4 :> 1030 @@
    5 :> 1091 @@ 6 :> 1156 @@ 7 :> 1225 @@ 8 :> 1298 @@ 9 :> 1375 @@
    10 :> 1457 @@ 11 :> 1543 @@ 12 :> 1635 @@ 13 :> 1732 @@ 14 :> 1835 @@
    15 :> 1945 @@ 16 :> 2060 @@ 17 :> 2183 @@ 18 :> 2312 @@ 19 :> 2450 @@
    20 :> 2596 @@ 21 :> 2750 @@ 22 :> 2914 @@ 23 :> 3087 @@ 24 :> 3270 @@
    25 :> 3465 @@ 26 :> 3671 @@ 27 :> 3889 @@ 28 :> 4120 @@ 29 :> 4365 @@
    30 :> 4625 @@ 31 :> 4900 @@ 32 :> 5191 @@ 33 :> 5500 @@ 34 :> 5827 @@
    35 :> 6174 @@ 36 :> 6541 @@ 37 :> 6930 @@ 38 :> 7342 @@ 39 :> 7778 @@
    40 :> 8241 @@ 41 :> 8731 @@ 42 :> 9250 @@ 43 :> 9800 @@ 44 :> 10383 @@
    45 :> 11000 @@ 46 :> 11654 @@ 47 :> 12347 @@ 48 :> 13081 @@ 49 :> 13859 @@
    50 :> 14683 @@ 51 :> 15556 @@ 52 :> 16481 @@ 53 :> 17461 @@ 54 :> 18500 @@
    55 :> 19600 @@ 56 :> 20765 @@ 57 :> 22000 @@ 58 :> 23308 @@ 59 :> 24694 @@
    60 :> 26163 @@ 61 :> 27718 @@ 62 :> 29366 @@ 63 :> 31113 @@ 64 :> 32963 @@
    65 :> 34923 @@ 66 :> 36999 @@ 67 :> 39200 @@ 68 :> 41530 @@ 69 :> 44000 @@
    70 :> 46616 @@ 71 :> 49388 @@ 72 :> 52325 @@ 73 :> 55437 @@ 74 :> 58733 @@
    75 :> 62225 @@ 76 :> 65926 @@ 77 :> 69846 @@ 78 :> 73999 @@ 79 :> 78399 @@
    80 :> 83061 @@ 81 :> 88000 @@ 82 :> 93233 @@ 83 :> 98777 @@ 84 :> 104650 @@
    85 :> 110873 @@ 86 :> 117466 @@ 87 :> 124451 @@ 88 :> 131851 @@ 89 :> 139691 @@
    90 :> 147998 @@ 91 :> 156798 @@ 92 :> 166122 @@ 93 :> 176000 @@ 94 :> 186466 @@
    95 :> 197553 @@ 96 :> 209300 @@ 97 :> 221746 @@ 98 :> 234932 @@ 99 :> 248902 @@
    100 :> 263702

\* findClosestNote up to "Calculate target frequency": targetNoteNumber.
RECURSIVE ClosestInScale(_, _, _, _, _)
ClosestInScale(scale, k, semitone, closestNote, minDistance) ==
    IF k > Len(scale) THEN closestNote
    ELSE LET distance == IF semitone >= scale[k] THEN semitone - scale[k]
                         ELSE scale[k] - semitone
         IN  IF distance < minDistance
             THEN ClosestInScale(scale, k + 1, semitone, scale[k], distance)
             ELSE ClosestInScale(scale, k + 1, semitone, closestNote, minDistance)

TargetNoteNumber(currentScale, frequency) ==
    LET noteNumber == NoteNumberTable[frequency \div 100]
        semitone == ((noteNumber + 50) \div 100) % 12
        closestNote == ClosestInScale(currentScale, 1, semitone, currentScale[1], 12)
        octave == noteNumber \div 1200
    IN  octave * 12 + closestNote

findClosestNote(currentScale, frequency) ==
    NoteFrequencyTable[TargetNoteNumber(currentScale, frequency)]

\* "Fill buffer for pitch detection"
RECURSIVE AutoTuneFill(_, _, _)
AutoTuneFill(p, inputChannel, i) ==
    IF i >= Len(inputChannel) THEN p
    ELSE LET p1 == [p EXCEPT !.buffer[p.bufferIndex + 1] = inputChannel[i + 1],
                             !.bufferIndex = (p.bufferIndex + 1) % AutoTuneBufferSize]
             detectedFreq == detectPitch(p1, p1.buffer)
             p2 == IF p1.bufferIndex = 0 /\ detectedFreq > 5000 /\ detectedFreq < 200000
                   THEN [p1 EXCEPT !.currentPitch = detectedFreq,
                                   !.targetPitch = findClosestNote(p1.currentScale,
                                                                   detectedFreq)]
                   ELSE p1
         IN  AutoTuneFill(p2, inputChannel, i + 1)

\* "Simple time-domain pitch shifting": the output block.
AutoTuneShifted(p, inputChannel, n) ==
    LET den == 10 * p.currentPitch
        num == 10 * p.currentPitch + (p.targetPitch - p.currentPitch) * p.amount
    IN  [ i \in 1..n |->
            LET readPosFloor == ((i - 1) * den) \div num
                frac == ((i - 1) * den) % num
            IN  IF readPosFloor >= 0 /\ readPosFloor < Len(inputChannel) - 1
                THEN Frac(inputChannel[readPosFloor + 1] * (num - frac)
                              + inputChannel[readPosFloor + 2] * frac, num)
                ELSE IF readPosFloor >= 0 /\ readPosFloor < Len(inputChannel)
                     THEN Frac(inputChannel[readPosFloor + 1], 1)
                     ELSE Frac(0, 1) ]

\* A pass-through that delays the block by one sample.
AutoTunePassThroughDelayed(inputChannel, n) ==
    [ i \in 1..n |-> IF i > 1 /\ i - 1 <= Len(inputChannel)
                     THEN Frac(inputChannel[i - 1], 1) ELSE Frac(0, 1) ]

\* "Pass through if no pitch detected"
AutoTunePassThrough(inputChannel, n) ==
    [ i \in 1..n |-> IF i <= Len(inputChannel) THEN Frac(inputChannel[i], 1) ELSE NaN ]

AutoTuneProcess(p, input, outputChannel) ==
    IF ~input.hasChannel
    THEN [p |-> p, outputChannel |-> outputChannel]
    ELSE LET p1 == AutoTuneFill(p, input.channel, 0)
         IN  [ p |-> p1,
               outputChannel |->
                   IF p1.currentPitch > 0 /\ p1.targetPitch > 0
                   THEN AutoTuneShifted(p1, input.channel, Len(outputChannel))
                   ELSE AutoTunePassThrough(input.channel, Len(outputChannel)) ]

\* The fields of the processor that pitch detection reads and writes.
AutoTuneDetection(p) ==
    [ currentScale |-> p.currentScale, buffer |-> p.buffer,
      bufferIndex |-> p.bufferIndex, currentPitch |-> p.currentPitch,
      targetPitch |-> p.targetPitch, sampleRate |-> p.sampleRate ]

NoAutoTuneBlock ==
    [ processor |-> "none", input |-> [hasChannel |-> FALSE, channel |-> << >>],
      outputChannel |-> FracZeros(BlockLen),
      before |-> AutoTuneDetection(NewAutoTuneProcessor(0)) ]

\* The processors of this section as constructed, before any message or block.
XOff ==
    /\ autoTuneProcessor = NewAutoTuneProcessor(0)
    /\ autoTuneBlock = NoAutoTuneBlock
    /\ formantShiftProcessor = NewFormantShiftProcessor
    /\ lastMessage = NoMessages

\* ---- GranularProcessor (public/worklets/granular-processor.js)

GrainSize == 3           \* this.grainSize, scaled down
ScatterSamples == 2      \* this.scatter * this.sampleRate, scaled down

\* this.buffer.length: eight grains in the source, two here.
GranularBufferSize == 2 * GrainSize

\* density is in tenths; scatter and grainSize are held in samples, as
\* scatter * sampleRate and Math.floor(grainSize * sampleRate).
NewGranularProcessor ==
    [ grainSize  |-> GrainSize,
      scatter    |-> ScatterSamples,
      density    |-> 8,
      buffer     |-> Zeros(GranularBufferSize),
      bufferFill |-> 0,
      grains     |-> << >> ]

\* event.data of a granular message: one field each.
GranularMessages ==
    { [field |-> "grainSize", value |-> 1],
      [field |-> "grainSize", value |-> GrainSize],
      [field |-> "scatter", value |-> 0],
      [field |-> "density", value |-> 0],
      [field |-> "density", value |-> 8] }

\* port.onmessage. History kept in each grain: steady is FALSE once grainSize
\* changed during the grain's life.
GranularOnMessage(p, data) ==
    IF data.field = "grainSize"
    THEN [p EXCEPT !.grainSize = data.value,
                   !.grains = [k \in 1..Len(p.grains) |->
                                  [p.grains[k] EXCEPT
                                      !.steady = @ /\ data.value = p.grainSize]]]
    ELSE IF data.field = "scatter" THEN [p EXCEPT !.scatter = data.value]
    ELSE [p EXCEPT !.density = data.value]

\* inputs[0] of the granular node: without a channel, or a full block.
GranularInputBlocks ==
    { [hasChannel |-> FALSE, channel |-> << >>],
      [hasChannel |-> TRUE, channel |-> [i \in 1..BlockLen |-> 2 * i]] }

\* a % b of JavaScript, for b > 0: the sign is that of a.
Remainder(a, b) == IF a >= 0 THEN a % b ELSE -((-a) % b)

\* "Add input to buffer" with a cursor that is never wrapped.
RECURSIVE GranularFillNoWrap(_, _, _)
GranularFillNoWrap(p, inputChannel, i) ==
    IF i >= Len(inputChannel) THEN p
    ELSE GranularFillNoWrap(
             [p EXCEPT !.buffer = [n \in 1..Len(p.buffer) |->
                                      IF n = p.bufferFill + 1 THEN inputChannel[i + 1]
                                      ELSE p.buffer[n]],
                       !.bufferFill = p.bufferFill + 1],
             inputChannel, i + 1)

\* "Add input to buffer"
RECURSIVE GranularFill(_, _, _)
GranularFill(p, inputChannel, i) ==
    IF i >= Len(inputChannel) THEN p
    ELSE GranularFill([p EXCEPT !.buffer[p.bufferFill + 1] = inputChannel[i + 1],
                                !.bufferFill = Remainder(p.bufferFill + 1, Len(p.buffer))],
                      inputChannel, i + 1)

\* Math.random() < this.density * 0.1, for Math.random() in [0, 1).
MayCreate(p) ==
    IF p.density <= 0 THEN {FALSE}
    ELSE IF p.density >= 10 THEN {TRUE}
    ELSE BOOLEAN

\* Math.floor(Math.random() * n), for n >= 0.
RandomBelow(n) == IF n <= 0 THEN {0} ELSE 0..(n - 1)

\* The grain pushed by "Create new grains based on density". History kept in
\* the grain: made counts the samples it added to the output.
NewGrain(p, startPos, offset) ==
    [ start |-> startPos, end |-> startPos + p.grainSize, pos |-> 0,
      offset |-> offset, made |-> 0, steady |-> TRUE ]

\* The envelope 1 - |2 * pos / grainSize - 1| times grainSize.
Envelope(p, pos) == p.grainSize - Abs(2 * pos - p.grainSize)

\* The inner loop over j that adds at every j, whatever grain.pos.
RECURSIVE GrainSamplesUnguarded(_, _, _, _, _)
GrainSamplesUnguarded(p, grain, outputChannel, at, j) ==
    IF j >= Len(outputChannel)
    THEN [grain |-> grain, outputChannel |-> outputChannel, at |-> at]
    ELSE LET bufferPos == Remainder(grain.start + grain.pos, Len(p.buffer))
             k == Remainder(j + grain.offset, Len(outputChannel)) + 1
         IN  GrainSamplesUnguarded(
                 p,
                 [grain EXCEPT !.pos = @ + 1, !.made = @ + 1],
                 [outputChannel EXCEPT
                     ![k] = @ + p.buffer[bufferPos + 1] * Envelope(p, grain.pos)],
                 at \cup {[pos |-> grain.pos, bufferPos |-> bufferPos, index |-> k - 1]},
                 j + 1)

\* The inner loop over j of "Process active grains" for one grain. Output
\* samples are in units of 1 / (2 * grainSize); at collects, for each sample
\* added, grain.pos, the index read in this.buffer and the index written in
\* outputChannel.
RECURSIVE GrainSamples(_, _, _, _, _)
GrainSamples(p, grain, outputChannel, at, j) ==
    IF j >= Len(outputChannel)
    THEN [grain |-> grain, outputChannel |-> outputChannel, at |-> at]
    ELSE IF grain.pos < p.grainSize
    THEN LET bufferPos == Remainder(grain.start + grain.pos, Len(p.buffer))
             k == Remainder(j + grain.offset, Len(outputChannel)) + 1
         IN  GrainSamples(
                 p,
                 [grain EXCEPT !.pos = @ + 1, !.made = @ + 1],
                 [outputChannel EXCEPT
                     ![k] = @ + p.buffer[bufferPos + 1] * Envelope(p, grain.pos)],
                 at \cup {[pos |-> grain.pos, bufferPos |-> bufferPos, index |-> k - 1]},
                 j + 1)
    ELSE GrainSamples(p, grain, outputChannel, at, j + 1)

\* The outer loop over this.grains.
RECURSIVE GranularGrains(_, _, _, _)
GranularGrains(p, outputChannel, at, i) ==
    IF i >= Len(p.grains)
    THEN [p |-> p, outputChannel |-> outputChannel, at |-> at]
    ELSE LET r == GrainSamples(p, p.grains[i + 1], outputChannel, at, 0)
         IN  GranularGrains([p EXCEPT !.grains[i + 1] = r.grain],
                            r.outputChannel, r.at, i + 1)

\* process(inputs, outputs) without "Remove completed grains".
GranularProcessUnfiltered(p, input, outputChannel, create, startPos, offset) ==
    IF ~input.hasChannel
    THEN [p |-> p, outputChannel |-> outputChannel, at |-> {}, removed |-> << >>,
          cursors |-> {}, live |-> Len(p.grains)]
    ELSE LET p1 == GranularFill(p, input.channel, 0)
             p2 == IF create
                   THEN [p1 EXCEPT !.grains = Append(@, NewGrain(p1, startPos, offset))]
                   ELSE p1
             r == GranularGrains(p2, Zeros(Len(outputChannel)), {}, 0)
         IN  [ p |-> r.p, outputChannel |-> r.outputChannel, at |-> r.at,
               removed |-> << >>,
               cursors |-> { GranularFill(p, SubSeq(input.channel, 1, n), 0).bufferFill :
                               n \in 0..Len(input.channel) },
               live |-> Len(r.p.grains) ]

\* process(inputs, outputs): create, startPos and offset are what the three
\* calls of Math.random() gave. removed holds the grains the filter dropped,
\* cursors the values bufferFill took, live the length of this.grains before
\* the filter.
GranularProcess(p, input, outputChannel, create, startPos, offset) ==
    IF ~input.hasChannel
    THEN [p |-> p, outputChannel |-> outputChannel, at |-> {}, removed |-> << >>,
          cursors |-> {}, live |-> Len(p.grains)]
    ELSE LET p1 == GranularFill(p, input.channel, 0)
             cleared == Zeros(Len(outputChannel))
             p2 == IF create
                   THEN [p1 EXCEPT !.grains = Append(@, NewGrain(p1, startPos, offset))]
                   ELSE p1
             r == GranularGrains(p2, cleared, {}, 0)
             Active(grain) == grain.pos < p.grainSize
             Completed(grain) == ~Active(grain)
         IN  [ p |-> [r.p EXCEPT !.grains = SelectSeq(@, Active)],
               outputChannel |-> r.outputChannel,
               at |-> r.at,
               removed |-> SelectSeq(r.p.grains, Completed),
               cursors |-> { GranularFill(p, SubSeq(input.channel, 1, n), 0).bufferFill :
                               n \in 0..Len(input.channel) },
               live |-> Len(r.p.grains) ]

NoGranularBlock ==
    [ processor |-> "none", ran |-> FALSE, outputChannel |-> Zeros(BlockLen),
      grainSize |-> 0, at |-> {}, removed |-> << >>, cursors |-> {}, live |-> 0,
      had |-> 0 ]

GranularOff ==
    /\ granularProcessor = NewGranularProcessor
    /\ granularBlock = NoGranularBlock

\* ---- processAudioWithEffects: the graph built in the OfflineAudioContext

\* Gains in tenths, detune in cents. stage "echo" has an input gain, the
\* delay with its feedback loop and the echoMix gain, kept under the role
\* the live graph gives its wet gain.
processAudioWithEffects(basic, advanced) ==
    LET dryPath == Treble
        g0 == [ cur   |-> dryPath,
                edges |-> { <<Source, Bass>>, <<Bass, Treble>> },
                gain  |-> (Bass :> basic.bass) @@ (Treble :> basic.treble)
                          @@ (DryGain :> 10 - basic.reverb)
                          @@ (WetGain :> basic.reverb) ]
        g1 == IF advanced.echo.enabled
              THEN [g0 EXCEPT
                      !.edges = @ \cup { <<dryPath, N("echo", "input")>>,
                                         <<N("echo", "input"), N("echo", "delay")>>,
                                         <<N("echo", "delay"), N("echo", "feedback")>>,
                                         <<N("echo", "feedback"), N("echo", "delay")>>,
                                         <<N("echo", "delay"), N("echo", "wet")>> },
                      !.gain  = @ @@ (N("echo", "feedback") :> advanced.echo.feedback)
                                  @@ (N("echo", "wet") :> advanced.echo.mix),
                      !.cur   = N("echo", "wet")]
              ELSE g0
        g2 == IF advanced.distortion.enabled
              THEN [g1 EXCEPT
                      !.edges = @ \cup { <<g1.cur, N("distortion", "shaper")>> },
                      !.cur   = N("distortion", "shaper")]
              ELSE g1
        g3 == IF advanced.compression.enabled
              THEN [g2 EXCEPT
                      !.edges = @ \cup { <<g2.cur, N("compression", "node")>> },
                      !.cur   = N("compression", "node")]
              ELSE g2
    IN  [ rendered        |-> TRUE,
          basicEffects    |-> basic,
          advancedEffects |-> advanced,
          edges |-> g3.edges \cup { <<g3.cur, DryGain>>,
                                    <<Treble, Convolver>>, <<Convolver, WetGain>>,
                                    <<DryGain, Destination>>,
                                    <<WetGain, Destination>> },
          gain  |-> g3.gain,
          playbackRate |-> basic.speed,
          detune |-> basic.pitch * 100 ]

\* Nothing exported yet.
NoOffline ==
    [ rendered |-> FALSE, basicEffects |-> defaultEffects,
      advancedEffects |-> defaultAdvancedEffects, edges |-> {}, gain |-> << >>,
      playbackRate |-> 10, detune |-> 0 ]

ExportOff ==
    /\ gBasicEffects = defaultEffects
    /\ offline = NoOffline

\* ---- encodeWAV

MaxChannels == 2         \* audioBuffer.numberOfChannels is 1..MaxChannels
MaxFrames == 2           \* audioBuffer.length is 0..MaxFrames

\* Samples in halves: -1.5 (clamped to -1) and 0.5.
WavSamples == {-3, 1}

WavSampleRates == {8000, 44100}

\* The AudioBuffers handed to encodeWAV.
AudioBuffers ==
    UNION { { [ numberOfChannels |-> c, sampleRate |-> r, length |-> n,
                channels |-> d ] :
                  r \in WavSampleRates, d \in [1..c -> [1..n -> WavSamples]] } :
            c \in 1..MaxChannels, n \in 0..MaxFrames }

\* The n bytes of v, least significant first (littleEndian = true); v is
\* taken modulo 2^(8 * n), as DataView.setUint32 / setUint16 / setInt16 do.
LittleEndian(v, n) == [i \in 1..n |-> (v \div Pow(256, i - 1)) % 256]

\* Writing bytes at a byte offset of the view.
SetBytes(view, offset, bytes) ==
    [i \in 1..Len(view) |->
        IF i > offset /\ i <= offset + Len(bytes) THEN bytes[i - offset] ELSE view[i]]

setUint32(view, offset, v) == SetBytes(view, offset, LittleEndian(v, 4))
setUint16(view, offset, v) == SetBytes(view, offset, LittleEndian(v, 2))
setInt16(view, offset, v)  == SetBytes(view, offset, LittleEndian(v, 2))

\* writeString with the char codes of the four tags.
CharCodes ==
    [ RIFF |-> <<82, 73, 70, 70>>, WAVE |-> <<87, 65, 86, 69>>,
      fmt  |-> <<102, 109, 116, 32>>, data |-> <<100, 97, 116, 97>> ]

writeString(view, offset, string) == SetBytes(view, offset, CharCodes[string])

\* A header whose block align is that of a stereo file.
WavHeaderStereo(view, numOfChannels, sampleRate, length) ==
    LET v1  == writeString(view, 0, "RIFF")
        v2  == setUint32(v1, 4, 36 + length * numOfChannels * 2)
        v3  == writeString(v2, 8, "WAVE")
        v4  == writeString(v3, 12, "fmt")
        v5  == setUint32(v4, 16, 16)
        v6  == setUint16(v5, 20, 1)
        v7  == setUint16(v6, 22, numOfChannels)
        v8  == setUint32(v7, 24, sampleRate)
        v9  == setUint32(v8, 28, sampleRate * numOfChannels * 2)
        v10 == setUint16(v9, 32, 4)
        v11 == setUint16(v10, 34, 16)
        v12 == writeString(v11, 36, "data")
    IN  setUint32(v12, 40, length * numOfChannels * 2)

\* "Write WAV header"
WavHeader(view, numOfChannels, sampleRate, length) ==
    LET v1  == writeString(view, 0, "RIFF")
        v2  == setUint32(v1, 4, 36 + length * numOfChannels * 2)
        v3  == writeString(v2, 8, "WAVE")
        v4  == writeString(v3, 12, "fmt")
        v5  == setUint32(v4, 16, 16)
        v6  == setUint16(v5, 20, 1)
        v7  == setUint16(v6, 22, numOfChannels)
        v8  == setUint32(v7, 24, sampleRate)
        v9  == setUint32(v8, 28, sampleRate * numOfChannels * 2)
        v10 == setUint16(v9, 32, numOfChannels * 2)
        v11 == setUint16(v10, 34, 16)
        v12 == writeString(v11, 36, "data")
    IN  setUint32(v12, 40, length * numOfChannels * 2)

\* "Convert float32 to int16": the clamp, the scaling and the truncation of
\* setInt16, for a sample in halves.
Int16Sample(s) ==
    LET sample == Max(-2, Min(2, s))
    IN  IF sample < 0 THEN -((-sample * 32768) \div 2) ELSE (sample * 32767) \div 2

\* "Write audio data": frame i, channel channel, at offset.
RECURSIVE WavSamplesLoop(_, _, _, _, _)
WavSamplesLoop(view, audioBuffer, offset, i, channel) ==
    IF i >= audioBuffer.length THEN [view |-> view, offset |-> offset]
    ELSE IF channel >= audioBuffer.numberOfChannels
    THEN WavSamplesLoop(view, audioBuffer, offset, i + 1, 0)
    ELSE WavSamplesLoop(
             setInt16(view, offset,
                      Int16Sample(audioBuffer.channels[channel + 1][i + 1])),
             audioBuffer, offset + 2, i, channel + 1)

encodeWAV(audioBuffer) ==
    LET numOfChannels == audioBuffer.numberOfChannels
        sampleRate == audioBuffer.sampleRate
        length == audioBuffer.length
        buffer == Zeros(44 + length * numOfChannels * 2)
        header == WavHeader(buffer, numOfChannels, sampleRate, length)
    IN  WavSamplesLoop(header, audioBuffer, 44, 0, 0)

\* No call of encodeWAV yet.
NoWav ==
    [ encoded |-> FALSE,
      audioBuffer |-> [ numberOfChannels |-> 1, sampleRate |-> 44100,
                        length |-> 0, channels |-> << << >> >> ],
      buffer |-> << >>, offset |-> 0 ]

WavOff == wav = NoWav

\* No call of findClosestNote yet.
NoClosestNote ==
    [ called |-> FALSE, currentScale |-> "major", frequency |-> 0,
      targetNoteNumber |-> 0, result |-> 0 ]

NoteOff == noteCall = NoClosestNote

NoFormantBlock ==
    [ calls |-> 0, input |-> [hasChannel |-> FALSE, channel |-> << >>],
      formantFilters |-> NewFormantShiftProcessor.formantFilters,
      before |-> NoHistory, outputChannel |-> Zeros(BlockLen),
      inline |-> Zeros(BlockLen) ]

FormantOff ==
    /\ formantHistory = NoHistory
    /\ formantBlock = NoFormantBlock

\* ---- encodeMP3

\* No call of encodeMP3 yet. recorder is recorder.state, stopTask the task
\* that recorder.stop() queues (it fires dataavailable, then stop); history:
\* stopCalls counts the calls of recorder.stop(), stopInactive tells that one
\* of them found the recorder not recording, resolved counts the times the
\* returned promise was resolved.
NoMP3 ==
    [ pc |-> "idle", isMP3Supported |-> FALSE, audioBuffer |-> NoWav.audioBuffer,
      recorder |-> "none", source |-> "none", timer |-> "none", stopTask |-> "none",
      contextClosed |-> FALSE, chunks |-> << >>,
      stopCalls |-> 0, stopInactive |-> FALSE, resolved |-> 0,
      blob |-> [type |-> "", parts |-> << >>] ]

\* recorder.stop(): an inactive recorder stays as it is; a recording one
\* becomes inactive at once and a task is queued that fires dataavailable
\* and stop.
RecorderStop(m) ==
    IF m.recorder = "recording"
    THEN [m EXCEPT !.recorder = "inactive", !.stopTask = "queued", !.stopCalls = @ + 1]
    ELSE [m EXCEPT !.stopCalls = @ + 1, !.stopInactive = TRUE]

\* encodeMP3 up to its return: the fallback to encodeWAV, or the recorder
\* and the source started and the timer armed.
encodeMP3(m) ==
    IF ~m.isMP3Supported
    THEN [m EXCEPT !.pc = "returned",
                   !.resolved = @ + 1,
                   !.blob = [type |-> "audio/wav",
                             parts |-> << encodeWAV(m.audioBuffer).view >>]]
    ELSE [m EXCEPT !.pc = "returned",
                   !.recorder = "recording",
                   !.source = "playing",
                   !.timer = "armed"]

\* source.onended
onended(m) == RecorderStop([m EXCEPT !.source = "ended"])

\* The callback of setTimeout.
onTimeout(m) ==
    IF m.recorder = "recording"
    THEN RecorderStop([m EXCEPT !.timer = "fired"])
    ELSE [m EXCEPT !.timer = "fired"]

\* recorder.ondataavailable, for e.data.size = size
ondataavailable(m, size) ==
    IF size > 0
    THEN [m EXCEPT !.stopTask = "data", !.chunks = Append(@, size)]
    ELSE [m EXCEPT !.stopTask = "data"]

\* recorder.onstop
onstop(m) ==
    [m EXCEPT !.stopTask = "done",
              !.contextClosed = TRUE,
              !.resolved = @ + 1,
              !.blob = [type |-> "audio/mp3", parts |-> m.chunks]]

\* e.data.size of the recorded data: nothing, or some bytes.
ChunkSizes == {0, 1000}

MP3Off == mp3 = NoMP3

ZOff ==
    /\ FormantOff
    /\ unmounted = FALSE
    /\ MP3Off

YOff ==
    /\ NoteOff
    /\ GranularOff
    /\ ExportOff
    /\ WavOff
    /\ ZOff

---------------------------------------------------------------------------
(* Graph construction as a state machine: a snapshot is chosen, the two      *)
(* setup functions build the graph, later snapshots update it.              *)

\* The player as mounted: the state after the component's first render.
PMounted ==
    /\ isPlaying = FALSE
    /\ basicEffects = defaultEffects
    /\ advancedEffects = defaultAdvancedEffects
    /\ audioContextInitialized = FALSE
    /\ audioContextRef = 0
    /\ basicNodesRef = 0
    /\ advancedNodesRef = 0
    /\ effectsAppliedRef = FALSE
    /\ sourceNodeCreatedRef = FALSE
    /\ paused = TRUE
    /\ ctx = [c \in CtxIds |-> NoCtx]
    /\ elementSources = {}
    /\ tasks = [t \in Tasks |-> IdleTask]
    /\ calls = 0
    /\ caught = {}

\* No graph under construction outside the player.
GOff ==
    /\ gPhase = "off"
    /\ gEffects = defaultAdvancedEffects
    /\ gAvail = Processors
    /\ gBasic = NoBasic
    /\ gAdv = NoNodes

PInit ==
    /\ GOff
    /\ PMounted
    /\ WOff
    /\ XOff
    /\ YOff

\* The <<feedback, mix>> values a snapshot may carry: the defaults, values
\* above the documented ranges' upper ends and a negative feedback.
ParamInputs == { <<4, 3>>, <<12, 10>>, <<-5, 5>> }

\* A worklet processor can be missing only where the snapshot asks for it.
AvailChoices(en) ==
    { a \in SUBSET Processors :
        \A s \in WorkletStages : s \notin en => ProcessorOf(s) \in a }

GInit ==
    /\ gPhase = "init"
    /\ \E en \in SUBSET Stages :
         /\ gEffects = Snapshot(en, defaultAdvancedEffects.echo.feedback,
                                defaultAdvancedEffects.echo.mix)
         /\ gAvail \in AvailChoices(en)
    /\ gBasic = NoBasic
    /\ gAdv = NoNodes
    /\ PMounted
    /\ WOff
    /\ XOff
    /\ YOff

\* The user's parameters for the snapshot, then both setup functions.
GSetup ==
    /\ gPhase = "init"
    /\ \E p \in ParamInputs :
         LET effects == Snapshot(EnabledOf(gEffects), p[1], p[2])
         IN  /\ gEffects' = effects
             /\ gBasic' = setupAudioGraph(defaultEffects, gAvail)
             /\ gAdv' = setupAdvancedAudioGraph(Source, Destination, effects, gAvail)
    /\ gPhase' = "built"
    /\ UNCHANGED <<yvars, gAvail, pvars, wvars, xvars, lastMessage>>

\* A later snapshot with the same enabled flags and new parameter values.
GUpdate ==
    /\ gPhase \in {"built", "updated"}
    /\ \E p \in ParamInputs :
         LET effects == Snapshot(EnabledOf(gEffects), p[1], p[2])
         IN  /\ gEffects' = effects
             /\ gAdv' = updateAdvancedAudioEffects(gAdv, effects)
    /\ gPhase' = "updated"
    /\ UNCHANGED <<yvars, gAvail, gBasic, pvars, wvars, xvars, lastMessage>>

GNext == GSetup \/ GUpdate

SpecGraph == GInit /\ [][GNext]_vars


---------------------------------------------------------------------------
(* The player as a state machine: user events start handlers, settled     *)
(* promises continue them.                                                 *)

\* The slot a new handler invocation takes.
FreeTask(t) ==
    /\ tasks[t].pc = "idle"
    /\ \A u \in Tasks : u < t => tasks[u].pc # "idle"

\* A step of a handler. While the component is mounted the state it set is
\* rendered and the update effects run; after the unmount the setters do
\* nothing and no effect runs, the refs and the browser's objects remain.
Unmounted(w) ==
    [w EXCEPT !.isPlaying = isPlaying,
              !.basicEffects = basicEffects,
              !.advancedEffects = advancedEffects,
              !.audioContextInitialized = audioContextInitialized]

PStep(w) ==
    /\ Commit(IF unmounted THEN Unmounted(w) ELSE RunEffects(World, w))
    /\ UNCHANGED <<yvars, gvars, wvars, xvars, lastMessage>>

TogglePlayPause ==
    /\ ~unmounted
    /\ calls < MaxCalls
    /\ \E t \in Tasks : FreeTask(t) /\
         \E env \in Envs : PStep(togglePlayPause(World, t, env))

HandleBasicEffectsChange ==
    /\ ~unmounted
    /\ calls < MaxCalls
    /\ \E t \in Tasks : FreeTask(t) /\
         \E newEffects \in BasicInputs, env \in Envs :
             PStep(handleBasicEffectsChange(World, t, newEffects, env))

HandleAdvancedEffectsChange ==
    /\ ~unmounted
    /\ calls < MaxCalls
    /\ \E t \in Tasks : FreeTask(t) /\
         \E newEffects \in AdvancedInputs, env \in Envs :
             PStep(handleAdvancedEffectsChange(World, t, newEffects, env))

\* await audioContextRef.current.close() settles.
CloseSettled ==
    \E t \in Tasks : tasks[t].pc = "close" /\
        \E env \in Envs : PStep(initAfterClose(World, t, env))

\* The await inside setupAudioGraph (the pitch shifter module) settles.
BasicModuleSettled ==
    \E t \in Tasks : tasks[t].pc = "worklet" /\ PStep(initBasicReturned(World, t))

\* The awaits inside setupAdvancedAudioGraph (the worklet modules) settle.
AdvancedModulesSettled ==
    \E t \in Tasks : tasks[t].pc = "advanced" /\ PStep(initAdvancedReturned(World, t))

ResumeSettled ==
    \E t \in Tasks : tasks[t].pc = "resume" /\ PStep(resumeSettled(World, t))

PlaySettled ==
    \E t \in Tasks : tasks[t].pc = "play" /\ PStep(playSettled(World, t))

PNext ==
    \/ TogglePlayPause
    \/ HandleBasicEffectsChange
    \/ HandleAdvancedEffectsChange
    \/ CloseSettled
    \/ BasicModuleSettled
    \/ AdvancedModulesSettled
    \/ ResumeSettled
    \/ PlaySettled

SpecPlayer == PInit /\ [][PNext]_vars

\* The component is unmounted: the cleanup runs, the handlers in flight go on.
Unmount ==
    /\ ~unmounted
    /\ unmounted' = TRUE
    /\ Commit(cleanup(World))
    /\ UNCHANGED <<nvars, grvars, evars, wavvars, fvars, mvars, gvars, wvars, xvars,
                   lastMessage>>

UNext ==
    \/ PNext
    \/ Unmount

SpecUnmount == PInit /\ [][UNext]_vars

---------------------------------------------------------------------------
(* The worklet processors as a state machine: parameter messages arrive   *)
(* between blocks, each process call renders one block.                    *)

\* The rates a message may carry, in halves: below, inside and above the
\* accepted range.
RateInputs == {0, 2, 3, 6}

WInit ==
    /\ GOff
    /\ PMounted
    /\ WOff
    /\ XOff
    /\ YOff

TimeStretchMessage ==
    /\ \E rate \in RateInputs :
         /\ timeStretchProcessor' = TimeStretchOnMessage(timeStretchProcessor, rate)
         /\ lastMessage' = [lastMessage EXCEPT !.rate = <<rate>>]
    /\ UNCHANGED <<yvars, pitchShifterProcessor, block, gvars, pvars, xvars>>

TimeStretchBlock ==
    /\ \E input \in InputBlocks :
         LET r == TimeStretchProcess(timeStretchProcessor, input, Zeros(BlockLen))
         IN  /\ timeStretchProcessor' = r.p
             /\ block' = [ processor |-> "time-stretch-processor", input |-> input,
                           outputChannel |-> r.outputChannel,
                           param |-> timeStretchProcessor.rate,
                           cursor |-> timeStretchProcessor.readPosition ]
    /\ UNCHANGED <<yvars, pitchShifterProcessor, gvars, pvars, xvars, lastMessage>>

PitchShifterMessage ==
    /\ \E pitchRatio \in PitchRatioInputs :
         pitchShifterProcessor' = PitchShifterOnMessage(pitchShifterProcessor, pitchRatio)
    /\ UNCHANGED <<yvars, timeStretchProcessor, block, gvars, pvars, xvars, lastMessage>>

PitchShifterBlock ==
    /\ \E input \in InputBlocks :
         block' = [ processor |-> "pitch-shifter-processor", input |-> input,
                    outputChannel |->
                        PitchShifterProcess(pitchShifterProcessor, input,
                                            Zeros(BlockLen)),
                    param |-> pitchShifterProcessor.pitchRatio, cursor |-> 0 ]
    /\ UNCHANGED <<yvars, timeStretchProcessor, pitchShifterProcessor, gvars, pvars, xvars,
                   lastMessage>>

WNext ==
    \/ TimeStretchMessage
    \/ TimeStretchBlock
    \/ PitchShifterMessage
    \/ PitchShifterBlock

SpecWorklet == WInit /\ [][WNext]_vars

\* The time stretcher alone.
TSNext ==
    \/ TimeStretchMessage
    \/ TimeStretchBlock

SpecTimeStretch == WInit /\ [][TSNext]_vars

---------------------------------------------------------------------------
(* Parameter messages alone: the three clamped parameters.                 *)

AutoTuneMessage ==
    /\ \E data \in AutoTuneMessages :
         /\ autoTuneProcessor' = AutoTuneOnMessage(autoTuneProcessor, data)
         /\ lastMessage' = IF data.hasAmount
                           THEN [lastMessage EXCEPT !.amount = <<data.amount>>]
                           ELSE lastMessage
    /\ UNCHANGED <<yvars, autoTuneBlock, formantShiftProcessor, gvars, pvars, wvars>>

FormantShiftMessage ==
    /\ \E shift \in ShiftInputs :
         /\ formantShiftProcessor' = FormantShiftOnMessage(formantShiftProcessor, shift)
         /\ lastMessage' = [lastMessage EXCEPT !.shift = <<shift>>]
    /\ UNCHANGED <<yvars, autoTuneProcessor, autoTuneBlock, gvars, pvars, wvars>>

MInit ==
    /\ GOff
    /\ PMounted
    /\ WOff
    /\ XOff
    /\ YOff

MNext ==
    \/ TimeStretchMessage
    \/ AutoTuneMessage
    \/ FormantShiftMessage

SpecMessages == MInit /\ [][MNext]_vars

---------------------------------------------------------------------------
(* The auto-tune processor: messages between blocks, one block per call.   *)

AInit ==
    /\ GOff
    /\ PMounted
    /\ WOff
    /\ \E rate \in SampleRates : autoTuneProcessor = NewAutoTuneProcessor(rate)
    /\ autoTuneBlock = NoAutoTuneBlock
    /\ formantShiftProcessor = NewFormantShiftProcessor
    /\ lastMessage = NoMessages
    /\ YOff

AutoTuneBlock ==
    /\ \E input \in AutoTuneInputBlocks :
         LET r == AutoTuneProcess(autoTuneProcessor, input, FracZeros(BlockLen))
         IN  /\ autoTuneProcessor' = r.p
             /\ autoTuneBlock' = [ processor |-> "auto-tune-processor",
                                   input |-> input,
                                   outputChannel |-> r.outputChannel,
                                   before |-> AutoTuneDetection(autoTuneProcessor) ]
    /\ UNCHANGED <<yvars, formantShiftProcessor, lastMessage, gvars, pvars, wvars>>

ANext ==
    \/ AutoTuneMessage
    \/ AutoTuneBlock

SpecAutoTune == AInit /\ [][ANext]_vars

---------------------------------------------------------------------------
(* findClosestNote as a function of the active scale and the frequency *)

\* The detected frequencies tried, in hundredths of a Hz.
NoteFrequencies == { 100 * f : f \in DOMAIN NoteNumberTable }

NInit ==
    /\ GOff
    /\ PMounted
    /\ WOff
    /\ XOff
    /\ ZOff
    /\ GranularOff
    /\ ExportOff
    /\ WavOff
    /\ \E name \in DOMAIN scales, frequency \in NoteFrequencies :
         noteCall = [NoClosestNote EXCEPT !.currentScale = name,
                                             !.frequency = frequency]

FindClosestNote ==
    /\ ~noteCall.called
    /\ noteCall' =
         [noteCall EXCEPT
            !.called = TRUE,
            !.targetNoteNumber = TargetNoteNumber(scales[noteCall.currentScale],
                                                  noteCall.frequency),
            !.result = findClosestNote(scales[noteCall.currentScale],
                                       noteCall.frequency)]
    /\ UNCHANGED <<zvars, grvars, evars, wavvars, gvars, pvars, wvars, xvars, lastMessage>>

NNext ==
    \/ FindClosestNote

SpecNote == NInit /\ [][NNext]_vars

---------------------------------------------------------------------------
(* The granular processor: messages between blocks, one block per call *)

GrInit ==
    /\ GOff
    /\ PMounted
    /\ WOff
    /\ XOff
    /\ ZOff
    /\ NoteOff
    /\ ExportOff
    /\ WavOff
    /\ granularProcessor = NewGranularProcessor
    /\ granularBlock = NoGranularBlock

GranularMessage ==
    /\ \E data \in GranularMessages :
         granularProcessor' = GranularOnMessage(granularProcessor, data)
    /\ UNCHANGED <<zvars, granularBlock, nvars, evars, wavvars, gvars, pvars, wvars, xvars,
                   lastMessage>>

\* A process call. Math.random() is drawn for startPos and offset only when a
\* grain is created.
GranularBlock ==
    /\ \E input \in GranularInputBlocks, create \in MayCreate(granularProcessor) :
       \E startPos \in (IF create /\ input.hasChannel
                        THEN RandomBelow(Len(granularProcessor.buffer)
                                             - granularProcessor.grainSize)
                        ELSE {0}),
          offset \in (IF create /\ input.hasChannel
                      THEN RandomBelow(granularProcessor.scatter)
                      ELSE {0}) :
         LET r == GranularProcess(granularProcessor, input, Zeros(BlockLen),
                                  create, startPos, offset)
         IN  /\ granularProcessor' = r.p
             /\ granularBlock' = [ processor |-> "granular-processor",
                                   ran |-> input.hasChannel,
                                   outputChannel |-> r.outputChannel,
                                   grainSize |-> granularProcessor.grainSize,
                                   at |-> r.at,
                                   removed |-> r.removed,
                                   cursors |-> r.cursors,
                                   live |-> r.live,
                                   had |-> Len(granularProcessor.grains) ]
    /\ UNCHANGED <<zvars, nvars, evars, wavvars, gvars, pvars, wvars, xvars, lastMessage>>

GrNext ==
    \/ GranularMessage
    \/ GranularBlock

SpecGranular == GrInit /\ [][GrNext]_vars

---------------------------------------------------------------------------
(* The live graph and the export graph for the same snapshots *)

\* The stages a snapshot of this specification may enable.
ExportStages == { "echo", "distortion", "chorus", "compression" }

ExInit ==
    /\ gPhase = "init"
    /\ \E en \in SUBSET ExportStages :
         gEffects = Snapshot(en, defaultAdvancedEffects.echo.feedback,
                             defaultAdvancedEffects.echo.mix)
    /\ gAvail = Processors
    /\ gBasic = NoBasic
    /\ gAdv = NoNodes
    /\ gBasicEffects = defaultEffects
    /\ offline = NoOffline
    /\ PMounted
    /\ WOff
    /\ XOff
    /\ ZOff
    /\ NoteOff
    /\ GranularOff
    /\ WavOff

\* Both setup functions, on the basic and the advanced snapshot of the user.
SetupGraphs ==
    /\ gPhase = "init"
    /\ \E p \in ParamInputs, basic \in BasicInputs :
         LET effects == Snapshot(EnabledOf(gEffects), p[1], p[2])
         IN  /\ gEffects' = effects
             /\ gBasicEffects' = basic
             /\ gBasic' = setupAudioGraph(basic, gAvail)
             /\ gAdv' = setupAdvancedAudioGraph(Source, Destination, effects, gAvail)
    /\ gPhase' = "built"
    /\ UNCHANGED <<zvars, gAvail, offline, pvars, wvars, xvars, lastMessage, nvars, grvars,
                   wavvars>>

\* A later basic snapshot.
UpdateBasic ==
    /\ gPhase \in {"built", "updated"}
    /\ \E basic \in BasicInputs :
         /\ gBasicEffects' = basic
         /\ gBasic' = updateAudioEffects(gBasic, basic)
    /\ gPhase' = "updated"
    /\ UNCHANGED <<zvars, gEffects, gAvail, gAdv, offline, pvars, wvars, xvars, lastMessage,
                   nvars, grvars, wavvars>>

\* A later advanced snapshot with the same enabled flags.
UpdateAdvanced ==
    /\ gPhase \in {"built", "updated"}
    /\ \E p \in ParamInputs :
         LET effects == Snapshot(EnabledOf(gEffects), p[1], p[2])
         IN  /\ gEffects' = effects
             /\ gAdv' = updateAdvancedAudioEffects(gAdv, effects)
    /\ gPhase' = "updated"
    /\ UNCHANGED <<zvars, gBasicEffects, gAvail, gBasic, offline, pvars, wvars, xvars,
                   lastMessage, nvars, grvars, wavvars>>

\* The download: the export graph for the snapshots of the moment.
ProcessAudioWithEffects ==
    /\ offline' = processAudioWithEffects(gBasicEffects, gEffects)
    /\ UNCHANGED <<zvars, gvars, gBasicEffects, pvars, wvars, xvars, lastMessage, nvars,
                   grvars, wavvars>>

ExNext ==
    \/ SetupGraphs
    \/ UpdateBasic
    \/ UpdateAdvanced
    \/ ProcessAudioWithEffects

SpecExport == ExInit /\ [][ExNext]_vars

---------------------------------------------------------------------------
(* encodeWAV as a function of the rendered buffer *)

WvInit ==
    /\ GOff
    /\ PMounted
    /\ WOff
    /\ XOff
    /\ ZOff
    /\ NoteOff
    /\ GranularOff
    /\ ExportOff
    /\ \E audioBuffer \in AudioBuffers : wav = [NoWav EXCEPT !.audioBuffer = audioBuffer]

EncodeWAV ==
    /\ ~wav.encoded
    /\ LET r == encodeWAV(wav.audioBuffer)
       IN  wav' = [wav EXCEPT !.encoded = TRUE, !.buffer = r.view, !.offset = r.offset]
    /\ UNCHANGED <<zvars, gvars, pvars, wvars, xvars, lastMessage, nvars, grvars, evars>>

WvNext ==
    \/ EncodeWAV

SpecWav == WvInit /\ [][WvNext]_vars

---------------------------------------------------------------------------
(* The formant shift processor: shift messages and process calls. The      *)
(* inline processor and the one of public/worklets receive the same         *)
(* messages through the same handler, so they hold the same shift and       *)
(* formantFilters; each process call renders the block with both.           *)

FInit ==
    /\ GOff
    /\ PMounted
    /\ WOff
    /\ XOff
    /\ NoteOff
    /\ GranularOff
    /\ ExportOff
    /\ WavOff
    /\ ZOff

FormantShiftBlock ==
    /\ formantBlock.calls < MaxFormantBlocks
    /\ \E input \in FormantInputBlocks :
         LET r == FormantShiftProcess(formantShiftProcessor, formantHistory, input,
                                      Zeros(BlockLen))
         IN  /\ formantHistory' = r.h
             /\ formantBlock' =
                   [ calls |-> formantBlock.calls + 1,
                     input |-> input,
                     formantFilters |-> formantShiftProcessor.formantFilters,
                     before |-> formantHistory,
                     outputChannel |-> r.outputChannel,
                     inline |-> FormantShiftProcessInline(formantShiftProcessor, input,
                                                          Zeros(BlockLen)) ]
    /\ UNCHANGED <<nvars, grvars, evars, wavvars, uvars, mvars, gvars, pvars, wvars, xvars,
                   lastMessage>>

FNext ==
    \/ FormantShiftMessage
    \/ FormantShiftBlock

SpecFormant == FInit /\ [][FNext]_vars

---------------------------------------------------------------------------
(* encodeMP3: the call, then the events of the source, the timer and the   *)
(* recorder in the order the browser delivers them.                         *)

MP3Init ==
    /\ GOff
    /\ PMounted
    /\ WOff
    /\ XOff
    /\ NoteOff
    /\ GranularOff
    /\ ExportOff
    /\ WavOff
    /\ FormantOff
    /\ unmounted = FALSE
    /\ \E audioBuffer \in AudioBuffers, isMP3Supported \in BOOLEAN :
         mp3 = [NoMP3 EXCEPT !.audioBuffer = audioBuffer,
                             !.isMP3Supported = isMP3Supported]

MP3Step(m) ==
    /\ mp3' = m
    /\ UNCHANGED <<nvars, grvars, evars, wavvars, fvars, uvars, gvars, pvars, wvars, xvars,
                   lastMessage>>

EncodeMP3 ==
    /\ mp3.pc = "idle"
    /\ MP3Step(encodeMP3(mp3))

\* The source has played to its end; a closed context renders no more.
SourceEnded ==
    /\ mp3.source = "playing"
    /\ ~mp3.contextClosed
    /\ MP3Step(onended(mp3))

\* audioBuffer.duration * 1000 + 500 ms have passed.
TimeoutFired ==
    /\ mp3.timer = "armed"
    /\ MP3Step(onTimeout(mp3))

\* The task queued by recorder.stop() fires dataavailable ...
StopData ==
    /\ mp3.stopTask = "queued"
    /\ \E size \in ChunkSizes : MP3Step(ondataavailable(mp3, size))

\* ... and then stop.
StopEvent ==
    /\ mp3.stopTask = "data"
    /\ MP3Step(onstop(mp3))

MP3Next ==
    \/ EncodeMP3
    \/ SourceEnded
    \/ TimeoutFired
    \/ StopData
    \/ StopEvent

SpecMP3 == MP3Init /\ [][MP3Next]_vars

---------------------------------------------------------------------------
(* Reading a built graph back: the chain of stages from a node *)

Succ(edges, n) == { e[2] : e \in { x \in edges : x[1] = n } }

\* The node a stage hands to the next one.
StageOut(stage) ==
    IF stage \in WorkletStages \cup {"compression"}
    THEN N(stage, "node")
    ELSE N(stage, "merger")

\* The stages met when following the connections from cur, in order; "fork"
\* when the connections out of a stage's output lead to more than one place.
RECURSIVE ChainFrom(_, _, _)
ChainFrom(edges, cur, fuel) ==
    LET owners == { n[1] : n \in Succ(edges, cur) }
    IN  IF fuel = 0 \/ owners \subseteq {"destination"}
        THEN << >>
        ELSE IF Cardinality(owners) > 1
        THEN << "fork" >>
        ELSE LET s == CHOOSE o \in owners : TRUE
             IN  << s >> \o ChainFrom(edges, StageOut(s), fuel - 1)

ChainEnd(chain) == IF chain = << >> THEN Source ELSE StageOut(chain[Len(chain)])

RECURSIVE Reach(_, _)
Reach(edges, seen) ==
    LET more == seen \cup UNION { Succ(edges, n) : n \in seen }
    IN  IF more = seen THEN seen ELSE Reach(edges, more)

\* The key under which a stage's main node is stored in AdvancedAudioNodes.
MainKey(stage) ==
    CASE stage = "echo"         -> "echoDelayNode"
      [] stage = "distortion"   -> "distortionNode"
      [] stage = "chorus"       -> "chorusDelayNode"
      [] stage = "flanger"      -> "flangerDelayNode"
      [] stage = "phaser"       -> "phaserFilters"
      [] stage = "compression"  -> "compressorNode"
      [] stage = "autoTune"     -> "autoTuneNode"
      [] stage = "formantShift" -> "formantShiftNode"
      [] stage = "timeStretch"  -> "timeStretchNode"
      [] stage = "granular"     -> "granularNode"

\* The enabled worklet stages of the snapshot whose node cannot be created.
Missing(effects, avail) ==
    { s \in WorkletStages \cap EnabledOf(effects) : ProcessorOf(s) \notin avail }

\* The claimed order, cut down to the stages of a set.
InOrder(S) == LET keep(s) == s \in S IN SelectSeq(StageOrder, keep)

---------------------------------------------------------------------------
(* Claims about graph construction (SpecGraph) *)

\* C5: for every combination of enabled flags, the chain built by
\* setupAdvancedAudioGraph is exactly the enabled, created stages in the order
\* echo, distortion, chorus, flanger, phaser, compression, auto-tune, formant
\* shift, time-stretch, granular, and its last node feeds the destination.
C5_ChainInCanonicalOrder ==
    gPhase # "init" =>
        LET chain == ChainFrom(gAdv.edges, Source, Len(StageOrder) + 1)
        IN  /\ chain = InOrder(EnabledOf(gEffects) \ Missing(gEffects, gAvail))
            /\ Succ(gAdv.edges, ChainEnd(chain)) = { Destination }

\* C5 witness: a built graph with at least three enabled stages, the phaser
\* and the compressor among them.
C5_Witness ==
    /\ gPhase = "built"
    /\ {"echo", "phaser", "compression", "granular"} \subseteq EnabledOf(gEffects)
    /\ Len(ChainFrom(gAdv.edges, Source, Len(StageOrder) + 1)) >= 4

\* C7: with every advanced effect disabled setupAdvancedAudioGraph stores no
\* node and its only connection is source -> destination.
C7_AllDisabledIsBypass ==
    (gPhase # "init" /\ EnabledOf(gEffects) = {}) =>
        /\ gAdv.nodes = {}
        /\ gAdv.edges = { <<Source, Destination>> }
        /\ DOMAIN gAdv.gain = {}

\* C7 witness: setup has run on a snapshot with nothing enabled.
C7_Witness ==
    /\ gPhase = "built"
    /\ EnabledOf(gEffects) = {}
    /\ <<Source, Destination>> \in gAdv.edges

\* C8: when a worklet node cannot be created, setup still returns: the stage
\* is absent from the returned nodes (pitchNode is null), every other enabled
\* stage is stored and chained in order, and the source still reaches the
\* destination through the chain.
C8_WorkletFailureBypassesOnlyThatStage ==
    gPhase = "built" =>
        LET missing == Missing(gEffects, gAvail)
            kept    == EnabledOf(gEffects) \ missing
            chain   == ChainFrom(gAdv.edges, Source, Len(StageOrder) + 1)
        IN  /\ \A s \in missing : MainKey(s) \notin gAdv.nodes
            /\ \A s \in kept : MainKey(s) \in gAdv.nodes
            /\ chain = InOrder(kept)
            /\ Destination \in Reach(gAdv.edges, {Source})
            /\ \A e \in gAdv.edges : \A s \in missing : e[1][1] # s /\ e[2][1] # s
            /\ gBasic.pitchNode = (ProcessorOf("pitch") \in gAvail)
            /\ Destination \in Reach(gBasic.edges, {Source})
            /\ (~gBasic.pitchNode) => (Pitch \notin Reach(gBasic.edges, {Source}))

\* C8 witness: the pitch shifter and two enabled worklet stages are missing,
\* with enabled stages before and after them in the chain.
C8_Witness ==
    /\ gPhase = "built"
    /\ ProcessorOf("pitch") \notin gAvail
    /\ Missing(gEffects, gAvail) = {"autoTune", "timeStretch"}
    /\ {"echo", "formantShift", "granular"} \subseteq
           EnabledOf(gEffects) \ Missing(gEffects, gAvail)

\* The documented upper bound of a feedback parameter (0.9).
FeedbackMax == 9

FeedbackNodes == { N("echo", "feedback"), N("flanger", "feedback"), N("phaser", "feedback") }

\* C10: the gain of the echo, flanger and phaser feedback loops is within
\* [0, 0.9] after setup and after every update.
C10_FeedbackClamped ==
    \A n \in FeedbackNodes \cap DOMAIN gAdv.gain :
        0 <= gAdv.gain[n] /\ gAdv.gain[n] <= FeedbackMax

---------------------------------------------------------------------------
(* Claims about the player (SpecPlayer) *)

AllIdle == \A t \in Tasks : tasks[t].pc = "idle"

\* The context the player references, when it is open (0 otherwise).
LiveCtx ==
    IF audioContextRef # 0 /\ ctx[audioContextRef].state # "closed"
    THEN audioContextRef
    ELSE 0

GraphOf(c) == ctx[c].basic.edges \cup ctx[c].adv.edges

\* The advanced stages that have a node in the live graph.
LiveStages ==
    IF LiveCtx = 0 THEN {}
    ELSE { s \in Stages : \E e \in ctx[LiveCtx].adv.edges : e[1][1] = s \/ e[2][1] = s }

InRebuild(t) == tasks[t].pc \in {"close", "worklet", "advanced"}

\* C1: once every handler has run to completion and a graph is live, the
\* stages present in it are exactly the effects enabled in the latest
\* advancedEffects.
C1_StagesMatchEnabled ==
    (AllIdle /\ LiveCtx # 0 /\ audioContextInitialized) =>
        LiveStages = EnabledOf(advancedEffects)

\* C2: a graph rebuilt by handleAdvancedEffectsChange or
\* handleBasicEffectsChange is constructed from the snapshot that handler was
\* called with.
C2_RebuildUsesNewSnapshot ==
    \A c \in CtxIds :
        ctx[c].basicUsed # << >> =>
            /\ ctx[c].builtBy = "advanced" => ctx[c].advUsed = ctx[c].requested
            /\ ctx[c].builtBy = "basic" => ctx[c].basicUsed = ctx[c].requested

\* C3: when a rebuild ends in the catch block, the context that was active
\* when it began is still open, still referenced and still marked
\* initialized.
C3_FailedRebuildKeepsPrevious ==
    [][ \A c \in CtxIds :
          (c \notin caught /\ c \in caught') =>
              /\ ctx'[c].state # "closed"
              /\ audioContextRef' = c
              /\ basicNodesRef' = c
              /\ audioContextInitialized' ]_vars

\* C4: while any initAudioContext call is between its start and its return,
\* the audio element is paused.
C4_PausedDuringRebuild ==
    (\E t \in Tasks : InRebuild(t)) => paused

\* C6: in the live graph every path from the media source to the destination
\* passes through the low-shelf (200 Hz) filter and then the high-shelf
\* (3000 Hz) filter.
C6_ShelvingFiltersFirst ==
    LiveCtx # 0 =>
        LET edges == GraphOf(LiveCtx)
            without(n) == { e \in edges : e[1] # n /\ e[2] # n }
        IN  /\ Destination \notin Reach(without(Bass), {Source})
            /\ Destination \notin Reach(without(Treble), {Source})
            /\ Bass \notin Reach(edges, {Treble})
            /\ FilterKind[Bass] = [type |-> "lowshelf", frequency |-> 200]
            /\ FilterKind[Treble] = [type |-> "highshelf", frequency |-> 3000]

---------------------------------------------------------------------------
(* Claims about the worklet processors (SpecWorklet) *)

\* The block's input has no channel data, or a channel shorter than the
\* output block (zero-length included).
ShortInput(b) ==
    \/ ~b.input.hasChannel
    \/ Len(b.input.channel) < Len(b.outputChannel)

\* C9: a process call whose input has no channel data or a channel shorter
\* than the output block leaves every sample of the output block at 0.
C9_ShortInputGivesSilence ==
    (block.processor # "none" /\ ShortInput(block)) =>
        \A i \in 1..Len(block.outputChannel) : block.outputChannel[i] = 0

---------------------------------------------------------------------------
(* Claims about parameter messages (SpecMessages) *)

\* The bound of [lo, hi] nearest to v, or v itself when it is inside.
Nearest(v, lo, hi) == IF v < lo THEN lo ELSE IF v > hi THEN hi ELSE v

\* C11: after any sequence of messages the time-stretch rate is in
\* [0.5, 2.0], the auto-tune amount in [0, 1], the formant shift in [-2, 2]
\* with the formant centers 500, 1500 and 2500 Hz times 1.5^shift, and each
\* parameter is the last value sent for it, moved to the nearest bound when
\* it was out of range.
C11_ParametersClamped ==
    /\ timeStretchProcessor.rate \in 1..4
    /\ autoTuneProcessor.amount \in 0..10
    /\ formantShiftProcessor.shift \in -2..2
    /\ \A k \in 1..3 :
         LET s == formantShiftProcessor.shift
             f == formantShiftProcessor.formantFilters[k].frequency
         IN  IF s >= 0
             THEN f * Pow(2, s) = FormantBase[k] * 36 * Pow(3, s)
             ELSE f * Pow(3, -s) = FormantBase[k] * 36 * Pow(2, -s)
    /\ lastMessage.rate # << >> =>
           timeStretchProcessor.rate = Nearest(lastMessage.rate[1], 1, 4)
    /\ lastMessage.amount # << >> =>
           autoTuneProcessor.amount = Nearest(lastMessage.amount[1], 0, 10)
    /\ lastMessage.shift # << >> =>
           formantShiftProcessor.shift = Nearest(lastMessage.shift[1], -2, 2)

\* C11 witness: each of the three parameters was last sent out of range, the
\* shift below -2, so the third formant is at 2500 * 4/9 Hz.
C11_Witness ==
    /\ lastMessage = [rate |-> <<6>>, amount |-> <<15>>, shift |-> <<-3>>]
    /\ formantShiftProcessor.formantFilters[3].frequency = 40000

---------------------------------------------------------------------------
(* Claims about the auto-tune processor (SpecAutoTune) *)

\* C14: a block processed while no valid pitch has been detected
\* (currentPitch = 0) carries its input samples unchanged.
C14_PassThroughBeforeDetection ==
    ( /\ autoTuneBlock.processor # "none"
      /\ autoTuneBlock.input.hasChannel
      /\ autoTuneProcessor.currentPitch = 0 ) =>
        \A i \in 1..Len(autoTuneBlock.input.channel) :
            autoTuneBlock.outputChannel[i] = Frac(autoTuneBlock.input.channel[i], 1)

\* C14 witness: a full block passed through after a detection that ran on a
\* full buffer with crossings and was not accepted, and after an amount message.
C14_Witness ==
    /\ autoTuneBlock.processor # "none"
    /\ Len(autoTuneBlock.input.channel) = BlockLen
    /\ autoTuneBlock.before.bufferIndex + BlockLen >= AutoTuneBufferSize
    /\ Crossings(autoTuneProcessor.buffer, 0, 0) >= 2
    /\ autoTuneProcessor.currentPitch = 0
    /\ lastMessage.amount # << >>
    /\ autoTuneBlock.outputChannel[1] = Frac(autoTuneBlock.input.channel[1], 1)

\* C15: pitch detection runs when the detection buffer fills; the detected
\* frequency f replaces currentPitch and targetPitch exactly when
\* 50 <= f <= 2000 Hz, and otherwise both keep their values.
C15_DetectionAcceptsVoiceRange ==
    (autoTuneBlock.processor # "none" /\ autoTuneBlock.input.hasChannel) =>
        LET b      == autoTuneBlock.before
            ch     == autoTuneBlock.input.channel
            filled == b.bufferIndex + Len(ch) >= AutoTuneBufferSize
            full   == [ i \in 1..AutoTuneBufferSize |->
                          IF i <= b.bufferIndex THEN b.buffer[i]
                          ELSE ch[i - b.bufferIndex] ]
        IN  IF filled /\ detectPitch(b, full) >= 5000 /\ detectPitch(b, full) <= 200000
            THEN /\ autoTuneProcessor.currentPitch = detectPitch(b, full)
                 /\ autoTuneProcessor.targetPitch =
                        findClosestNote(b.currentScale, detectPitch(b, full))
            ELSE /\ autoTuneProcessor.currentPitch = b.currentPitch
                 /\ autoTuneProcessor.targetPitch = b.targetPitch

---------------------------------------------------------------------------
(* Claims about the pitch shifter (SpecWorklet) and the time stretcher     *)
(* (SpecTimeStretch)                                                       *)

\* C12: PitchShifterProcessor.process writes one output sample per input
\* sample and no other: output index i is read at i / pitchRatio, an index
\* whose read position is at or past the end of the input is 0, the last
\* input sample is taken as it is and any other position is interpolated
\* between two input samples.
C12_PitchShifterResamples ==
    (block.processor = "pitch-shifter-processor" /\ block.input.hasChannel) =>
        LET inputChannel == block.input.channel
            inLen == Len(inputChannel)
        IN  /\ \A i \in 0..(inLen - 1) :
                 LET at == (4 * i) \div block.param
                     fl == at \div 2
                 IN  block.outputChannel[i + 1] =
                         IF fl >= inLen THEN 0
                         ELSE IF fl = inLen - 1 THEN inputChannel[inLen]
                         ELSE Lerp(inputChannel[fl + 1], inputChannel[fl + 2], at % 2)
            /\ \A i \in (inLen + 1)..Len(block.outputChannel) : block.outputChannel[i] = 0

\* C12 witness: a full non-zero block at ratio 0.5, whose second sample is
\* read past the end of the input.
C12_Witness ==
    /\ block.processor = "pitch-shifter-processor"
    /\ block.param = 1
    /\ block.input.hasChannel
    /\ Len(block.input.channel) = BlockLen
    /\ \A i \in 1..BlockLen : block.input.channel[i] = 2
    /\ block.outputChannel[1] = 2
    /\ block.outputChannel[2] = 0

\* C13: a block of TimeStretchProcessor advances the read cursor by rate for
\* each output sample, modulo the buffer length, and the cursor stays in
\* [0, buffer length), whatever rate messages came between blocks.
C13_ReadCursorAdvancesByRate ==
    LET L2 == 2 * Len(timeStretchProcessor.buffer)
    IN  /\ timeStretchProcessor.readPosition >= 0
        /\ timeStretchProcessor.readPosition < L2
        /\ block.processor = "time-stretch-processor" =>
             timeStretchProcessor.readPosition =
                 IF block.input.hasChannel
                 THEN (block.cursor + Len(block.outputChannel) * block.param) % L2
                 ELSE block.cursor

\* C13 witness: a block at rate 1.5, after a rate message, whose cursor
\* wrapped at the end of the buffer.
C13_Witness ==
    /\ block.processor = "time-stretch-processor"
    /\ block.input.hasChannel
    /\ block.param = 3
    /\ lastMessage.rate # << >>
    /\ block.cursor + Len(block.outputChannel) * block.param
           > 2 * Len(timeStretchProcessor.buffer)
    /\ timeStretchProcessor.readPosition < block.cursor

\* C29: a full block that TimeStretchProcessor processes at rate 1.0 comes
\* out as it went in, whatever the rates of the blocks before it.
C29_UnitRateIsIdentity ==
    ( /\ block.processor = "time-stretch-processor"
      /\ block.param = 2
      /\ block.input.hasChannel
      /\ Len(block.input.channel) = Len(block.outputChannel) ) =>
        block.outputChannel = block.input.channel

---------------------------------------------------------------------------
(* Claims about findClosestNote (SpecNote) *)

\* C16: findClosestNote returns the frequency of a note of the active scale,
\* and no note of the scale, in any octave, is closer in semitones to the
\* detected pitch, whose MIDI number is 12 * log2(f / 440) + 69.
C16_NearestScaleNote ==
    noteCall.called =>
        LET scale == scales[noteCall.currentScale]
            detected == NoteNumberTable[noteCall.frequency \div 100] + 1200
            InScale(m) == \E k \in 1..Len(scale) : scale[k] = m % 12
            Distance(m) == IF 100 * m >= detected THEN 100 * m - detected
                           ELSE detected - 100 * m
        IN  /\ \E m \in DOMAIN NoteFrequencyTable :
                 InScale(m) /\ noteCall.result = NoteFrequencyTable[m]
            /\ \A m \in DOMAIN NoteFrequencyTable :
                 InScale(m) =>
                     Distance(noteCall.targetNoteNumber) <= Distance(m)

\* C24: when the detected frequency is exactly the frequency of a note of
\* the active scale, findClosestNote returns it, so that the target pitch is
\* the detected pitch and the correction ratio is 1.
C24_OnScaleNoteUnchanged ==
    ( /\ noteCall.called
      /\ \E m \in DOMAIN NoteFrequencyTable :
            /\ \E k \in 1..Len(scales[noteCall.currentScale]) :
                  scales[noteCall.currentScale][k] = m % 12
            /\ NoteFrequencyTable[m] = noteCall.frequency ) =>
        noteCall.result = noteCall.frequency

---------------------------------------------------------------------------
(* Claims about the granular processor (SpecGranular) *)

CeilDiv(a, b) == (a + b - 1) \div b

\* C28: while grainSize does not change, a process call adds at most one
\* grain to this.grains, and this.grains never holds more than
\* ceil(grainSize / block length) grains, during a call or between calls.
C28_LiveGrainsBounded ==
    /\ granularBlock.live <= granularBlock.had + 1
    /\ ( /\ (\A k \in 1..Len(granularProcessor.grains) : granularProcessor.grains[k].steady)
          /\ (\A n \in 1..Len(granularBlock.removed) : granularBlock.removed[n].steady) ) =>
            /\ Len(granularProcessor.grains) <= CeilDiv(granularProcessor.grainSize, BlockLen)
            /\ granularBlock.ran =>
                  granularBlock.live <= CeilDiv(granularBlock.grainSize, BlockLen)

\* C28 witness: a call that created a grain while one of an earlier call was
\* alive, so that ceil(grainSize / block length) = 2 grains were live, and
\* removed the older one.
C28_Witness ==
    /\ granularBlock.ran
    /\ granularBlock.grainSize = GrainSize
    /\ granularBlock.had = 1
    /\ granularBlock.live = 2
    /\ granularBlock.live = CeilDiv(GrainSize, BlockLen)
    /\ Len(granularBlock.removed) = 1
    /\ granularBlock.removed[1].steady
    /\ Len(granularProcessor.grains) = 1
    /\ granularProcessor.grains[1].steady

---------------------------------------------------------------------------
(* Claims about the export (SpecExport, SpecWav) *)

\* The effects that own a node of a graph.
Owners(edges) == { e[1][1] : e \in edges } \cup { e[2][1] : e \in edges }

\* C18: for the same snapshots, the export graph has a stage for every
\* enabled effect of the live graph, and every dry and wet gain of the live
\* graph is in the export graph with the same value.
C18_ExportMatchesLive ==
    ( /\ gPhase \in {"built", "updated"}
      /\ offline.rendered
      /\ offline.basicEffects = gBasicEffects
      /\ offline.advancedEffects = gEffects ) =>
        /\ \A stage \in EnabledOf(gEffects) : stage \in Owners(offline.edges)
        /\ \A n \in DOMAIN gAdv.gain :
             n[2] \in {"dry", "wet"} =>
                 /\ n \in DOMAIN offline.gain
                 /\ offline.gain[n] = gAdv.gain[n]
        /\ offline.gain[DryGain] = gBasic.gain[DryGain]
        /\ offline.gain[WetGain] = gBasic.gain[WetGain]

ReadLittleEndian(view, offset, n) ==
    LET RECURSIVE Sum(_)
        Sum(i) == IF i > n THEN 0 ELSE view[offset + i] * Pow(256, i - 1) + Sum(i + 1)
    IN  Sum(1)

\* C20: encodeWAV returns 44 + length * channels * 2 bytes: the tags, the
\* RIFF size 36 + dataBytes, format 1, the channel count, the sample rate,
\* the byte rate, the block align, 16 bits per sample and the data size in
\* the header, and the write offset at the end of the buffer.
C20_WavLayout ==
    wav.encoded =>
        LET numOfChannels == wav.audioBuffer.numberOfChannels
            sampleRate == wav.audioBuffer.sampleRate
            dataBytes == wav.audioBuffer.length * numOfChannels * 2
        IN  /\ Len(wav.buffer) = 44 + dataBytes
            /\ SubSeq(wav.buffer, 1, 4) = CharCodes.RIFF
            /\ ReadLittleEndian(wav.buffer, 4, 4) = 36 + dataBytes
            /\ SubSeq(wav.buffer, 9, 12) = CharCodes.WAVE
            /\ SubSeq(wav.buffer, 13, 16) = CharCodes.fmt
            /\ ReadLittleEndian(wav.buffer, 16, 4) = 16
            /\ ReadLittleEndian(wav.buffer, 20, 2) = 1
            /\ ReadLittleEndian(wav.buffer, 22, 2) = numOfChannels
            /\ ReadLittleEndian(wav.buffer, 24, 4) = sampleRate
            /\ ReadLittleEndian(wav.buffer, 28, 4) = sampleRate * numOfChannels * 2
            /\ ReadLittleEndian(wav.buffer, 32, 2) = numOfChannels * 2
            /\ ReadLittleEndian(wav.buffer, 34, 2) = 16
            /\ SubSeq(wav.buffer, 37, 40) = CharCodes.data
            /\ ReadLittleEndian(wav.buffer, 40, 4) = dataBytes
            /\ wav.offset = Len(wav.buffer)
            /\ \A i \in 1..Len(wav.buffer) : wav.buffer[i] \in 0..255

\* C20 witness: a mono buffer of the longest length whose last sample, 0.5,
\* is the 0x3fff in the last two bytes.
C20_Witness ==
    /\ wav.encoded
    /\ wav.audioBuffer.numberOfChannels = 1
    /\ wav.audioBuffer.length = MaxFrames
    /\ wav.audioBuffer.sampleRate = 44100
    /\ Len(wav.buffer) = 44 + 2 * MaxFrames
    /\ wav.buffer[Len(wav.buffer)] = 63
    /\ wav.buffer[Len(wav.buffer) - 1] = 255

---------------------------------------------------------------------------
(* Claims about the formant shift processor (SpecFormant) *)

\* One biquad alone: filter run over the channel from sample i on, with its
\* own four history values h.
RECURSIVE OneFilter(_, _, _, _)
OneFilter(h, filter, channel, i) ==
    IF i > Len(channel) THEN h
    ELSE LET c == BiquadTable[filter.frequency]
             result == filter.gain * 1000 * channel[i]
                       + filter.gain * c.a1 * h.x1 + filter.gain * c.a2 * h.x2
                       - 10 * c.a1 * h.y1 - 10 * c.a2 * h.y2
         IN  OneFilter([x1 |-> channel[i], x2 |-> h.x1,
                        y1 |-> fround(result, 10000), y2 |-> h.y1],
                       filter, channel, i + 1)

HistoryOf(h, k) == [x1 |-> h.x1[k], x2 |-> h.x2[k], y1 |-> h.y1[k], y2 |-> h.y2[k]]

\* C21: the external formant processor keeps the biquad history per formant:
\* after a process call the history of each formant is what that formant's
\* filter alone makes of the block, starting from its own history before
\* the call, whatever the other two filters did; and the history a call
\* starts from is the history the call before left (only a process call
\* changes it).
C21_HistoryPerFormant ==
    /\ [](formantBlock.calls > 0 =>
            \A k \in 1..3 :
                HistoryOf(formantHistory, k) =
                    OneFilter(HistoryOf(formantBlock.before, k),
                              formantBlock.formantFilters[k],
                              formantBlock.input.channel, 1))
    /\ [][formantHistory' # formantHistory =>
              /\ formantBlock'.calls = formantBlock.calls + 1
              /\ formantBlock'.before = formantHistory]_vars

\* C21 witness: a second or later call found three different output
\* histories left by the call before, and left three different ones.
C21_Witness ==
    /\ formantBlock.calls >= 2
    /\ formantBlock.input.hasChannel
    /\ Cardinality({formantBlock.before.y1[k] : k \in 1..3} \cup {0}) = 4
    /\ Cardinality({formantHistory.y1[k] : k \in 1..3} \cup {0}) = 4
    /\ formantHistory # formantBlock.before

\* C22: the inline formant shift processor and the one of public/worklets
\* write the same output block for the same input block, after the same
\* messages and earlier blocks.
C22_InlineMatchesExternal ==
    formantBlock.calls > 0 => formantBlock.outputChannel = formantBlock.inline

---------------------------------------------------------------------------
(* Claims about the player's contexts (SpecPlayer, SpecUnmount) *)

\* C23: once the cleanup has run, no AudioContext the player created is
\* open and the context, basic-node and advanced-node refs are null,
\* whatever an initAudioContext call in flight does afterwards.
C23_CleanupLeavesNothingOpen ==
    unmounted =>
        /\ \A c \in CtxIds : ctx[c].state \in {"none", "closed"}
        /\ audioContextRef = 0
        /\ basicNodesRef = 0
        /\ advancedNodesRef = 0

\* C25: setupAudioGraph never reaches createMediaElementSource for an
\* element that already has a source node: whenever the await inside
\* setupAudioGraph settles, the element has no source yet.
C25_SourceCreatedOnce ==
    [][ \A t \in Tasks :
          (tasks[t].pc = "worklet" /\ tasks'[t].pc # "worklet") =>
              elementSources = {} ]_vars

\* C26: every AudioContext the player created is the one audioContextRef
\* holds or is closed, so at most one is open at any time.
C26_OneOpenContext ==
    \A c \in CtxIds : ctx[c].state \notin {"none", "closed"} => audioContextRef = c

---------------------------------------------------------------------------
(* Claims about encodeMP3 (SpecMP3) *)

\* C30: with MP3 supported, recorder.stop() is called only while the
\* recorder is recording and never more than once, the promise is resolved
\* at most once, and once the timer has fired and the stop event was
\* delivered both have happened exactly once, whichever of the source's
\* ended event and the timer came first.
C30_StopOnceResolveOnce ==
    mp3.isMP3Supported =>
        /\ ~mp3.stopInactive
        /\ mp3.stopCalls <= 1
        /\ mp3.resolved <= 1
        /\ (mp3.timer = "fired" /\ mp3.stopTask = "done") =>
               (mp3.stopCalls = 1 /\ mp3.resolved = 1)

====
